---------------------------- MODULE Spec2Model ----------------------------
(***************************************************************************)
(* A model of the tech-radar submission tool: the conversational           *)
(* extraction orchestrator (app/claude_client.py), the record and its      *)
(* validation (app/models.py, app/sanitization.py), the scoring engine     *)
(* (app/quality.py), the history matcher (app/radar_history.py) and the    *)
(* websocket handler that drives a turn (app/main.py).                     *)
(*                                                                         *)
(* Text that the code inspects character by character (record fields,     *)
(* names looked up in the history) is a sequence of one-character strings. *)
(* Text that the code only concatenates and forwards (model text deltas,   *)
(* raw tool-argument buffers) is a TLA+ string, joined with \o.            *)
(***************************************************************************)
EXTENDS Integers, Sequences, FiniteSets, TLC

(***************************************************************************)
(* Bounds of the model.                                                    *)
(***************************************************************************)
\* Stream events the model may deliver over the whole run.
MaxStreamEvents == 4
\* Messages the websocket handler receives over the whole run.
MaxReceives == 2
\* Dispatches of SpecExtract.
MaxDispatches == 2

(***************************************************************************)
(* Values.  A Python value is a tagged record, so that values of different *)
(* Python types are never confused.                                        *)
(***************************************************************************)
Null == [t |-> "null"]
Str(s) == [t |-> "str", v |-> s]
List(l) == [t |-> "list", v |-> l]
Bool(b) == [t |-> "bool", v |-> b]
Num(n) == [t |-> "num", v |-> n]
Enum(label) == [t |-> "enum", v |-> label]
\* A float that is a ratio: quality is (completeness + bonus) / 140 * 100.
Frac(n, d) == [t |-> "frac", num |-> n, den |-> d]

IsNull(x) == x.t = "null"

(***************************************************************************)
(* app/sanitization.py                                                     *)
(***************************************************************************)
MAX_MESSAGE_LENGTH == 10000
MAX_NAME_LENGTH == 200
MAX_DESCRIPTION_LENGTH == 5000
MAX_SHORT_FIELD_LENGTH == 500
MAX_LIST_ITEMS == 20
MAX_LIST_ITEM_LENGTH == 500

\* A control character of the class [\x00-\x08\x0b\x0c\x0e-\x1f\x7f].
CTRL == "<NUL>"
ControlChars == {CTRL}
\* The class [ \t].
HorizontalSpace == {" ", "\t"}
\* What str.strip() removes.
Whitespace == {" ", "\t", "\n", "\r", "\f"}

Min(a, b) == IF a < b THEN a ELSE b

\* text[:n]
Truncate(s, n) == SubSeq(s, 1, Min(Len(s), n))

\* re.sub(class, '', text)
RemoveChars(s, class) == SelectSeq(s, LAMBDA c : c \notin class)

\* The first position of the maximal run of characters of class that holds
\* position i of s.
RunStart(s, class, i) ==
    CHOOSE j \in 1..i :
        /\ \A k \in j..i : s[k] \in class
        /\ j = 1 \/ s[j - 1] \notin class

\* The last position of that run.
RunEnd(s, class, i) ==
    CHOOSE j \in i..Len(s) :
        /\ \A k \in i..j : s[k] \in class
        /\ j = Len(s) \/ s[j + 1] \notin class

\* The mark of a character that a substitution drops.
DROPPED == "<dropped>"

\* re.sub(class{minRun,}, repl, text): every maximal run of at least minRun
\* characters of class is replaced by repl, which is shorter than minRun: the
\* first Len(repl) characters of the run become repl, the others are dropped.
CollapseRuns(s, class, minRun, repl) ==
    LET marked ==
          [i \in 1..Len(s) |->
             IF s[i] \notin class THEN s[i]
             ELSE LET first == RunStart(s, class, i)
                      last == RunEnd(s, class, i)
                  IN IF last - first + 1 < minRun THEN s[i]
                     ELSE IF i - first + 1 <= Len(repl) THEN repl[i - first + 1]
                     ELSE DROPPED]
    IN SelectSeq(marked, LAMBDA c : c # DROPPED)

\* str.strip(): from the first to the last character that is no whitespace.
Strip(s) ==
    IF \A i \in 1..Len(s) : s[i] \in Whitespace THEN <<>>
    ELSE SubSeq(s,
                CHOOSE i \in 1..Len(s) :
                    s[i] \notin Whitespace /\ \A j \in 1..(i - 1) : s[j] \in Whitespace,
                CHOOSE i \in 1..Len(s) :
                    s[i] \notin Whitespace /\ \A j \in (i + 1)..Len(s) : s[j] \in Whitespace)

sanitize_text(text, max_length) ==
    IF text = <<>> THEN text
    ELSE Strip(CollapseRuns(
                 CollapseRuns(RemoveChars(Truncate(text, max_length), ControlChars),
                              HorizontalSpace, 10, <<" ", " ", " ", " ">>),
                 {"\n"}, 5, <<"\n", "\n", "\n">>))

sanitize_user_message(message) == sanitize_text(message, MAX_MESSAGE_LENGTH)

(***************************************************************************)
(* app/models.py                                                           *)
(***************************************************************************)
QuadrantLabels == {"Techniques", "Tools", "Platforms", "Languages & Frameworks"}
RingLabels == {"Adopt", "Trial", "Assess", "Hold"}

\* The characters of the enum labels (the value a str Enum compares equal to).
LabelChars(label) ==
    CASE label = "Adopt" -> <<"A", "d", "o", "p", "t">>
      [] label = "Trial" -> <<"T", "r", "i", "a", "l">>
      [] label = "Assess" -> <<"A", "s", "s", "e", "s", "s">>
      [] label = "Hold" -> <<"H", "o", "l", "d">>
      [] label = "Techniques" -> <<"T", "e", "c", "h", "n", "i", "q", "u", "e", "s">>
      [] label = "Tools" -> <<"T", "o", "o", "l", "s">>
      [] label = "Platforms" -> <<"P", "l", "a", "t", "f", "o", "r", "m", "s">>
      [] label = "Languages & Frameworks" ->
           <<"L", "a", "n", "g", "u", "a", "g", "e", "s", " ", "&", " ",
             "F", "r", "a", "m", "e", "w", "o", "r", "k", "s">>

ShortTextFields == {"name", "submitter_name", "submitter_contact", "why_now",
                    "resubmission_rationale"}
ListFields == {"client_references", "alternatives_considered", "strengths", "weaknesses"}
ScoreFields == {"completeness_score", "quality_score"}

\* The fields of BlipSubmission.
BlipFields == ShortTextFields \cup ListFields \cup ScoreFields
              \cup {"quadrant", "ring", "description", "is_resubmission",
                    "previous_appearances"}

\* BlipSubmission(): every field at its default.
BlipSubmission ==
    [f \in BlipFields |-> IF f = "is_resubmission" THEN Bool(FALSE) ELSE Null]

\* Field(max_length=...) of the str fields.
FieldMaxLength(f) ==
    CASE f = "name" -> MAX_NAME_LENGTH
      [] f = "description" -> MAX_DESCRIPTION_LENGTH
      [] OTHER -> MAX_SHORT_FIELD_LENGTH

\* The mode='before' validators: None passes through, text is sanitized.  A value
\* of another type makes sanitize_text or the type check that follows raise.
sanitize_short_fields(v) ==
    IF v.t = "str" THEN Str(sanitize_text(v.v, MAX_SHORT_FIELD_LENGTH)) ELSE v

sanitize_description(v) ==
    IF v.t = "str" THEN Str(sanitize_text(v.v, MAX_DESCRIPTION_LENGTH)) ELSE v

sanitize_list_fields(v) ==
    IF v.t = "list"
    THEN List([i \in 1..Min(Len(v.v), MAX_LIST_ITEMS) |->
                 sanitize_text(v.v[i], MAX_LIST_ITEM_LENGTH)])
    ELSE v

BeforeValidator(f, v) ==
    IF f \in ShortTextFields THEN sanitize_short_fields(v)
    ELSE IF f = "description" THEN sanitize_description(v)
    ELSE IF f \in ListFields THEN sanitize_list_fields(v)
    ELSE v

\* Whether pydantic accepts the value (after the before-validator) for the field.
FieldAccepts(f, v) ==
    CASE f \in ShortTextFields \cup {"description"} ->
           \/ v.t = "null"
           \/ v.t = "str" /\ Len(v.v) <= FieldMaxLength(f)
      [] f = "ring" ->
           \/ v.t = "null"
           \/ v.t = "enum" /\ v.v \in RingLabels
           \/ v.t = "str" /\ \E l \in RingLabels : LabelChars(l) = v.v
      [] f = "quadrant" ->
           \/ v.t = "null"
           \/ v.t = "enum" /\ v.v \in QuadrantLabels
           \/ v.t = "str" /\ \E l \in QuadrantLabels : LabelChars(l) = v.v
      [] f \in ListFields ->
           \/ v.t = "null"
           \/ v.t = "list" /\ Len(v.v) <= MAX_LIST_ITEMS
      [] f = "is_resubmission" -> v.t = "bool"
      [] f = "previous_appearances" -> v.t \in {"null", "list"}
      [] f \in ScoreFields -> v.t \in {"null", "num", "frac"}

\* The value pydantic stores for an accepted value: labels become enum members.
Coerce(f, v) ==
    IF f = "ring" /\ v.t = "str"
    THEN Enum(CHOOSE l \in RingLabels : LabelChars(l) = v.v)
    ELSE IF f = "quadrant" /\ v.t = "str"
    THEN Enum(CHOOSE l \in QuadrantLabels : LabelChars(l) = v.v)
    ELSE v

\* A variant of ModelValidateDict for a model that forbids extra keys: a key
\* that is no field of the model makes validation fail.
ModelValidateDict_ForbidExtra(data) ==
    LET given == DOMAIN data \cap BlipFields
        pre == [f \in given |-> BeforeValidator(f, data[f])]
    IN IF DOMAIN data \subseteq BlipFields /\ \A f \in given : FieldAccepts(f, pre[f])
       THEN [ok |-> TRUE,
             blip |-> [f \in BlipFields |->
                         IF f \in given THEN Coerce(f, pre[f]) ELSE BlipSubmission[f]]]
       ELSE [ok |-> FALSE]

\* BlipSubmission.model_validate(data) for a dict: [ok |-> FALSE] stands for the
\* exception it raises.  Keys that are no field of the model are ignored.
ModelValidateDict(data) ==
    LET given == DOMAIN data \cap BlipFields
        pre == [f \in given |-> BeforeValidator(f, data[f])]
    IN IF \A f \in given : FieldAccepts(f, pre[f])
       THEN [ok |-> TRUE,
             blip |-> [f \in BlipFields |->
                         IF f \in given THEN Coerce(f, pre[f]) ELSE BlipSubmission[f]]]
       ELSE [ok |-> FALSE]


\* model_validate of any parsed JSON value: only a dict can validate.
ModelValidate(data) ==
    IF data.t = "dict" THEN ModelValidateDict(data.v) ELSE [ok |-> FALSE]

(***************************************************************************)
(* app/quality.py                                                          *)
(***************************************************************************)
\* FIELD_WEIGHTS, in the order of the dict.
FieldOrder == <<"name", "quadrant", "ring", "description", "submitter_name",
                "submitter_contact", "why_now", "client_references",
                "alternatives_considered", "strengths", "weaknesses">>

FIELD_WEIGHTS(f) ==
    CASE f = "name" -> 10
      [] f = "quadrant" -> 5
      [] f = "ring" -> 5
      [] f = "description" -> 25
      [] f = "submitter_name" -> 5
      [] f = "submitter_contact" -> 5
      [] f = "why_now" -> 15
      [] f = "client_references" -> 10
      [] f = "alternatives_considered" -> 10
      [] f = "strengths" -> 5
      [] f = "weaknesses" -> 5

\* One evidence check: min_count > 0 stands for a "min_count" check, 0 for a
\* "required" check.
Check(field, minCount, bonus, gap) ==
    [field |-> field, min_count |-> minCount, bonus |-> bonus, gap |-> gap]

\* A variant of RING_EVIDENCE in which the checks of Hold add up to 35.
RING_EVIDENCE_HoldShort(ring) ==
    CASE ring = "Adopt" ->
           <<Check("client_references", 2, 20, "Adopt suggests at least 2 client references"),
             Check("description", 0, 10, "A description is essential for an Adopt recommendation"),
             Check("strengths", 0, 10, "List strengths to justify Adopt placement")>>
      [] ring = "Trial" ->
           <<Check("client_references", 1, 15, "Trial blips benefit from at least 1 client reference"),
             Check("description", 0, 10, "A description is essential for a Trial recommendation"),
             Check("alternatives_considered", 0, 15,
                   "Describe alternatives you considered before recommending Trial")>>
      [] ring = "Assess" ->
           <<Check("description", 0, 20,
                   "A thorough description is critical for an Assess recommendation"),
             Check("why_now", 0, 20, "Explain why this technology is worth assessing now")>>
      [] ring = "Hold" ->
           <<Check("description", 0, 10, "Describe why teams should hold on this technology"),
             Check("weaknesses", 0, 10,
                   "Describe weaknesses that justify the Hold recommendation"),
             Check("alternatives_considered", 0, 15,
                   "Suggest alternatives teams should consider instead")>>
      [] OTHER -> <<>>

RING_EVIDENCE(ring) ==
    CASE ring = "Adopt" ->
           <<Check("client_references", 2, 20, "Adopt suggests at least 2 client references"),
             Check("description", 0, 10, "A description is essential for an Adopt recommendation"),
             Check("strengths", 0, 10, "List strengths to justify Adopt placement")>>
      [] ring = "Trial" ->
           <<Check("client_references", 1, 15, "Trial blips benefit from at least 1 client reference"),
             Check("description", 0, 10, "A description is essential for a Trial recommendation"),
             Check("alternatives_considered", 0, 15,
                   "Describe alternatives you considered before recommending Trial")>>
      [] ring = "Assess" ->
           <<Check("description", 0, 20,
                   "A thorough description is critical for an Assess recommendation"),
             Check("why_now", 0, 20, "Explain why this technology is worth assessing now")>>
      [] ring = "Hold" ->
           <<Check("description", 0, 10, "Describe why teams should hold on this technology"),
             Check("weaknesses", 0, 15,
                   "Describe weaknesses that justify the Hold recommendation"),
             Check("alternatives_considered", 0, 15,
                   "Suggest alternatives teams should consider instead")>>
      [] OTHER -> <<>>

BONUS_TOTAL == 40

\* A variant of _field_is_filled that takes every list as filled.
field_is_filled_AnyList(value) ==
    CASE value.t = "null" -> FALSE
      [] value.t = "str" -> Len(Strip(value.v)) > 0
      [] OTHER -> TRUE

field_is_filled(value) ==
    CASE value.t = "null" -> FALSE
      [] value.t = "str" -> Len(Strip(value.v)) > 0
      [] value.t = "list" -> Len(value.v) > 0
      [] OTHER -> TRUE

\* A variant of CheckSatisfied that asks of every check only that its field is
\* filled.
CheckSatisfied_IgnoresCount(blip, check) == field_is_filled(blip[check.field])

\* Whether the record meets one evidence check.
CheckSatisfied(blip, check) ==
    LET value == blip[check.field] IN
    IF check.min_count > 0
    THEN value.t = "list" /\ Len(value.v) >= check.min_count
    ELSE field_is_filled(value)

\* sum of xs[i].bonus over the i in 1..n that satisfy the check
RECURSIVE EarnedUpTo(_, _, _)
EarnedUpTo(blip, checks, n) ==
    IF n = 0 THEN 0
    ELSE EarnedUpTo(blip, checks, n - 1)
         + (IF CheckSatisfied(blip, checks[n]) THEN checks[n].bonus ELSE 0)

\* getattr(blip.ring, "value", blip.ring)
RingKey(blip) == IF blip["ring"].t = "enum" THEN blip["ring"].v ELSE "?"

\* A variant of _ring_bonus that adds up the checks of every ring.
ring_bonus_EveryRing(blip) ==
    IF IsNull(blip["ring"]) THEN 0
    ELSE EarnedUpTo(blip, RING_EVIDENCE("Adopt") \o RING_EVIDENCE("Trial")
                          \o RING_EVIDENCE("Assess") \o RING_EVIDENCE("Hold"),
                    Len(RING_EVIDENCE("Adopt")) + Len(RING_EVIDENCE("Trial"))
                    + Len(RING_EVIDENCE("Assess")) + Len(RING_EVIDENCE("Hold")))

ring_bonus(blip) ==
    IF IsNull(blip["ring"]) THEN 0
    ELSE LET checks == RING_EVIDENCE(RingKey(blip)) IN EarnedUpTo(blip, checks, Len(checks))

RECURSIVE WeightUpTo(_, _)
WeightUpTo(blip, n) ==
    IF n = 0 THEN 0
    ELSE WeightUpTo(blip, n - 1)
         + (IF field_is_filled(blip[FieldOrder[n]]) THEN FIELD_WEIGHTS(FieldOrder[n]) ELSE 0)

calculate_completeness(blip) == WeightUpTo(blip, Len(FieldOrder))

\* (completeness + bonus) / (100 + _BONUS_TOTAL) * 100, kept as a ratio.
calculate_quality(blip) ==
    Frac((calculate_completeness(blip) + ring_bonus(blip)) * 100, 100 + BONUS_TOTAL)

calculate_scores(blip) ==
    [completeness |-> calculate_completeness(blip), quality |-> calculate_quality(blip)]

\* A variant of get_missing_fields that lists the fields from the last to the
\* first.
get_missing_fields_Reversed(blip) ==
    LET Missing(f) == ~field_is_filled(blip[f])
        missing == SelectSeq(FieldOrder, Missing)
    IN [i \in 1..Len(missing) |-> missing[Len(missing) + 1 - i]]

get_missing_fields(blip) ==
    LET Missing(f) == ~field_is_filled(blip[f])
    IN SelectSeq(FieldOrder, Missing)

\* A variant of get_ring_gaps that reports the gaps of a check only when its
\* field is not filled.
get_ring_gaps_FilledOnly(blip) ==
    IF IsNull(blip["ring"]) THEN <<>>
    ELSE LET checks == RING_EVIDENCE(RingKey(blip))
             Unmet(c) == ~field_is_filled(blip[c.field])
             unmet == SelectSeq(checks, Unmet)
         IN [i \in 1..Len(unmet) |-> unmet[i].gap]

get_ring_gaps(blip) ==
    IF IsNull(blip["ring"]) THEN <<>>
    ELSE LET checks == RING_EVIDENCE(RingKey(blip))
             Unmet(c) == ~CheckSatisfied(blip, c)
             unmet == SelectSeq(checks, Unmet)
         IN [i \in 1..Len(unmet) |-> unmet[i].gap]


(***************************************************************************)
(* app/radar_history.py                                                    *)
(***************************************************************************)
UpperCase == <<"A", "B", "C", "D", "E", "F", "G", "H", "I", "J", "K", "L", "M",
               "N", "O", "P", "Q", "R", "S", "T", "U", "V", "W", "X", "Y", "Z">>
LowerCase == <<"a", "b", "c", "d", "e", "f", "g", "h", "i", "j", "k", "l", "m",
               "n", "o", "p", "q", "r", "s", "t", "u", "v", "w", "x", "y", "z">>
\* The characters of the model in code-point order.
CodeOrder == <<"\t", "\n", "\f", "\r", " ", "&", "(", ")",
               "0", "1", "2", "3", "4", "5", "6", "7", "8", "9">>
             \o UpperCase \o LowerCase

IndexIn(seq, c) == CHOOSE i \in 1..Len(seq) : seq[i] = c

\* ord(c), up to an order-preserving renumbering.
CharCode(c) == IndexIn(CodeOrder, c)

\* str.lower()
LowerChar(c) ==
    IF \E i \in 1..Len(UpperCase) : UpperCase[i] = c
    THEN LowerCase[IndexIn(UpperCase, c)]
    ELSE c

Lower(s) == [i \in 1..Len(s) |-> LowerChar(s[i])]

\* name.strip().lower()
Normalize(name) == Lower(Strip(name))

\* a in b, for str
IsSubstring(a, b) ==
    \E i \in 0..(Len(b) - Len(a)) : SubSeq(b, i + 1, i + Len(a)) = a

\* a < b, for str: by code point, a proper prefix first.
RECURSIVE StrLess(_, _)
StrLess(a, b) ==
    IF b = <<>> THEN FALSE
    ELSE IF a = <<>> THEN TRUE
    ELSE IF Head(a) # Head(b) THEN CharCode(Head(a)) < CharCode(Head(b))
    ELSE StrLess(Tail(a), Tail(b))

\* sorted(blips, key=lambda b: b.volume): a stable insertion sort.
RECURSIVE InsertByVolume(_, _)
InsertByVolume(sorted, b) ==
    IF sorted = <<>> THEN <<b>>
    ELSE IF StrLess(b.volume, Head(sorted).volume) THEN <<b>> \o sorted
    ELSE <<Head(sorted)>> \o InsertByVolume(Tail(sorted), b)

RECURSIVE SortedByVolumeUpTo(_, _)
SortedByVolumeUpTo(blips, n) ==
    IF n = 0 THEN <<>>
    ELSE InsertByVolume(SortedByVolumeUpTo(blips, n - 1), blips[n])

SortedByVolume(blips) == SortedByVolumeUpTo(blips, Len(blips))

HistoricalBlip(name, ring, quadrant, volume) ==
    [name |-> name, ring |-> ring, quadrant |-> quadrant, volume |-> volume]

\* A variant of find_matching_blips whose second pass matches only the names
\* that contain the query.
find_matching_blips_OneWay(history, name) ==
    LET normalized == Normalize(name)
        IsExact(b) == Normalize(b.name) = normalized
        IsPartial(b) == IsSubstring(normalized, Normalize(b.name))
        exact == SelectSeq(history, IsExact)
        partial == SelectSeq(history, IsPartial)
    IN IF normalized = <<>> THEN <<>>
       ELSE IF exact # <<>> THEN SortedByVolume(exact)
       ELSE SortedByVolume(partial)

\* A variant of find_matching_blips that returns the substring matches along
\* with the exact ones.
find_matching_blips_NoShortCircuit(history, name) ==
    LET normalized == Normalize(name)
        IsPartial(b) == \/ IsSubstring(normalized, Normalize(b.name))
                        \/ IsSubstring(Normalize(b.name), normalized)
    IN IF normalized = <<>> THEN <<>>
       ELSE SortedByVolume(SelectSeq(history, IsPartial))

\* find_matching_blips over the loaded history.
find_matching_blips(history, name) ==
    LET normalized == Normalize(name)
        IsExact(b) == Normalize(b.name) = normalized
        IsPartial(b) == \/ IsSubstring(normalized, Normalize(b.name))
                        \/ IsSubstring(Normalize(b.name), normalized)
        exact == SelectSeq(history, IsExact)
        partial == SelectSeq(history, IsPartial)
    IN IF normalized = <<>> THEN <<>>
       ELSE IF exact # <<>> THEN SortedByVolume(exact)
       ELSE SortedByVolume(partial)

(***************************************************************************)
(* app/claude_client.py: the tool handlers                                 *)
(***************************************************************************)
Dict(d) == [t |-> "dict", v |-> d]
EmptyDict == Dict(<<>>)

\* blip.model_dump(exclude_none=True): the fields that are not None.
model_dump(blip) ==
    LET present == {f \in BlipFields : ~IsNull(blip[f])}
    IN [f \in present |-> blip[f]]

\* _build_system: what the system prompt embeds.
build_system(blip) ==
    [state |-> model_dump(blip),
     completeness |-> calculate_scores(blip).completeness,
     quality |-> calculate_scores(blip).quality,
     missing_fields |-> get_missing_fields(blip),
     ring_gaps |-> get_ring_gaps(blip)]

\* A variant of handle_check_history that lists the appearances from the last
\* match to the first.
handle_check_history_Reversed(history, name) ==
    LET matches == find_matching_blips(history, name) IN
    IF matches = <<>> THEN [found |-> FALSE, appearances |-> <<>>]
    ELSE [found |-> TRUE,
          appearances |-> [i \in 1..Len(matches) |->
                             [volume |-> matches[Len(matches) + 1 - i].volume,
                              ring |-> matches[Len(matches) + 1 - i].ring,
                              quadrant |-> matches[Len(matches) + 1 - i].quadrant]]]

handle_check_history(history, name) ==
    LET matches == find_matching_blips(history, name) IN
    IF matches = <<>> THEN [found |-> FALSE, appearances |-> <<>>]
    ELSE [found |-> TRUE,
          appearances |-> [i \in 1..Len(matches) |->
                             [volume |-> matches[i].volume, ring |-> matches[i].ring,
                              quadrant |-> matches[i].quadrant]]]

\* A variant of MergeValidated that assigns every key of data that names a
\* field of the record, None included.
MergeValidated_AssignsNone(data, validated, blip) ==
    [f \in BlipFields |-> IF f \in DOMAIN data THEN validated[f] ELSE blip[f]]

\* A variant of MergeValidated that extends a list field of the record with the
\* items of the argument object instead of replacing the list.
MergeValidated_ExtendsLists(data, validated, blip) ==
    [f \in BlipFields |->
       IF f \in DOMAIN data /\ ~IsNull(validated[f])
       THEN IF validated[f].t = "list" /\ blip[f].t = "list"
            THEN List(blip[f].v \o validated[f].v)
            ELSE validated[f]
       ELSE blip[f]]

\* The loop of _handle_extract_blip: every key of data whose validated value is
\* not None and that names a field of the record is assigned.
MergeValidated(data, validated, blip) ==
    [f \in BlipFields |->
       IF f \in DOMAIN data /\ ~IsNull(validated[f]) THEN validated[f] ELSE blip[f]]

\* A variant of StoreScores that stores a score only where the record has none.
StoreScores_KeepsGiven(blip) ==
    [blip EXCEPT !["completeness_score"] =
                     IF IsNull(@) THEN Num(calculate_scores(blip).completeness) ELSE @,
                 !["quality_score"] =
                     IF IsNull(@) THEN calculate_scores(blip).quality ELSE @]

\* blip.completeness_score = completeness; blip.quality_score = quality
StoreScores(blip) ==
    [blip EXCEPT !["completeness_score"] = Num(calculate_scores(blip).completeness),
                 !["quality_score"] = calculate_scores(blip).quality]

ExtractResult(blip) ==
    [status |-> "ok",
     completeness_score |-> calculate_scores(blip).completeness,
     quality_score |-> calculate_scores(blip).quality,
     missing_fields |-> get_missing_fields(blip),
     ring_gaps |-> get_ring_gaps(blip)]

\* _handle_extract_blip(data, blip): raised stands for the exception of
\* model_validate, which leaves the record as it was.
handle_extract_blip(data, blip) ==
    LET validated == ModelValidate(data) IN
    IF ~validated.ok THEN [raised |-> TRUE, blip |-> blip, result |-> Null]
    ELSE LET merged == StoreScores(MergeValidated(data.v, validated.blip, blip))
         IN [raised |-> FALSE, blip |-> merged, result |-> ExtractResult(merged)]


(***************************************************************************)
(* The model's stream: tool-argument fragments and json.loads              *)
(***************************************************************************)
sDocker == <<"D", "o", "c", "k", "e", "r">>
sCompose == <<"D", "o", "c", "k", "e", "r", " ", "C", "o", "m", "p", "o", "s", "e">>
sTrial == <<"T", "r", "i", "a", "l">>
sMaybe == <<"M", "a", "y", "b", "e">>
sVolume9 == <<"V", "o", "l", "u", "m", "e", " ", "9">>
sVolume10 == <<"V", "o", "l", "u", "m", "e", " ", "1", "0">>

\* The partial_json fragments the model streams: three whole documents, an
\* array, and a document split in two.
DocTrial == "{\"name\":\"Docker\",\"ring\":\"Trial\"}"
DocNullRing == "{\"name\":\"Docker\",\"ring\":null}"
DocBadRing == "{\"name\":\"Docker\",\"ring\":\"Maybe\"}"
DocArray == "[]"
FragOpen == "{\"name\":\"Docker\""
FragClose == "}"
Fragments == {DocTrial, DocNullRing, DocBadRing, DocArray, FragOpen, FragClose}

NameAndRing(name, ring) ==
    Dict([k \in {"name", "ring"} |-> IF k = "name" THEN name ELSE ring])

\* json.loads on the buffers that fragments can build: [ok |-> FALSE] stands
\* for JSONDecodeError.  Every other concatenation of fragments is not JSON.
json_loads(text) ==
    CASE text = DocTrial -> [ok |-> TRUE, value |-> NameAndRing(Str(sDocker), Str(sTrial))]
      [] text = DocNullRing -> [ok |-> TRUE, value |-> NameAndRing(Str(sDocker), Null)]
      [] text = DocBadRing -> [ok |-> TRUE, value |-> NameAndRing(Str(sDocker), Str(sMaybe))]
      [] text = DocArray -> [ok |-> TRUE, value |-> List(<<>>)]
      [] text = FragOpen \o FragClose ->
           [ok |-> TRUE, value |-> Dict([k \in {"name"} |-> Str(sDocker)])]
      [] OTHER -> [ok |-> FALSE]

\* json.loads(tu["input_json"]) if tu["input_json"] else {}, with
\* except json.JSONDecodeError: tool_input = {}
ParseToolInput(input_json) ==
    IF input_json = "" THEN EmptyDict
    ELSE IF json_loads(input_json).ok THEN json_loads(input_json).value
    ELSE EmptyDict

\* json.dumps(result), as the content of a tool_result block.
json_dumps(result) == [t |-> "json", v |-> result]

\* The loaded radar history (_history).
RadarHistory ==
    <<HistoricalBlip(sDocker, "Adopt", "Platforms", sVolume10),
      HistoricalBlip(sCompose, "Trial", "Tools", sVolume10),
      HistoricalBlip(sDocker, "Trial", "Platforms", sVolume9)>>

ToolNames == {"extract_blip_data", "check_radar_history", "unknown_tool"}
TextDeltas == {"Hello"}


(***************************************************************************)
(* State                                                                   *)
(***************************************************************************)
VARIABLES
    \* ConversationSession (app/conversation.py)
    session_messages,   \* session.messages
    blip,               \* session.blip
    submitted,          \* session.submitted
    \* websocket_endpoint (app/main.py)
    h_pc,               \* "receive", "turn" or "closed"
    is_submit,          \* is_submit of the turn in progress
    full_text,          \* full_text of the turn in progress
    ws_out,             \* the types of the messages sent on the websocket
    submissions,        \* the records save_submission has appended
    receives,           \* messages received so far
    \* get_claude_response (app/claude_client.py)
    g_pc,               \* "none", "start", "open", "streaming", "dispatch",
                        \* "done", "returned" or "raised"
    submit_messages,    \* messages + [submit_hint], the list of line 205
    system,             \* system
    collected_text,     \* collected_text
    tool_uses,          \* tool_uses
    tool_results,       \* tool_results
    chunk,              \* the chunk yielded and not yet taken by the caller
    exc,                \* the exception that left get_claude_response, or "none"
    \* the model (the Anthropic API)
    stream_events,      \* stream events delivered so far
    next_tool_id,       \* the id of the next tool call the model opens
    arrived,            \* the tool-call events of the open stream, in arrival order
    \* history of the turn in progress
    events,             \* the chunks get_claude_response has yielded
    model_calls,        \* the system and messages of each model call
    rounds,             \* tool rounds completed
    turn_start,         \* the record and the transcript when the turn began
    \* the last dispatch of SpecExtract, the last message of SpecScore
    xd,
    \* app/radar_history.py
    _history,           \* _history, the in-memory cache of the corpus
    csv_files,          \* the blips of the CSV files load_history reads
    fm,                 \* the last call of find_matching_blips
    \* app/mock_client.py (DEV_MODE)
    _pending_field,     \* _pending_field: id(blip) -> the field asked about
    blip_id,            \* id(session.blip)
    dt,                 \* the last action of SpecDev
    \* a second connection to the same session id
    peer,
    \* app/storage.py
    file,               \* SUBMISSIONS_FILE
    tmp,                \* the temp file next to it
    lock,               \* the holder of the FileLock, or 0
    saver,              \* the position and the locals of each save_submission call
    \* app/main.py, SessionStore
    _sessions,          \* _sessions: id -> (session, last access), in order
    now,                \* time.time()
    so                  \* the last operation on the store

vars == <<session_messages, blip, submitted, h_pc, is_submit, full_text, ws_out,
          submissions, receives, g_pc, submit_messages, system, collected_text,
          tool_uses, tool_results, chunk, exc, stream_events, next_tool_id, arrived, events,
          model_calls, rounds, turn_start, xd, _history, csv_files, fm,
          _pending_field, blip_id, dt, peer, file, tmp, lock, saver, _sessions, now, so>>

radar_vars == <<_history, csv_files, fm>>
dev_vars == <<_pending_field, blip_id, dt>>
storage_vars == <<file, tmp, lock, saver>>
store_vars == <<_sessions, now, so>>
env_vars == <<storage_vars, store_vars>>
session_vars == <<session_messages, blip, submitted>>
handler_vars == <<h_pc, is_submit, full_text, ws_out, submissions, receives>>
gen_vars == <<g_pc, submit_messages, system, collected_text, tool_uses, tool_results,
              chunk, exc>>
model_vars == <<stream_events, next_tool_id, arrived>>
history_vars == <<events, model_calls, rounds, turn_start>>

NoChunk == [type |-> "none"]
NoSystem == [state |-> <<>>]

SUBMIT_HINT ==
    [role |-> "user",
     content |-> [t |-> "text",
                  v |-> "[SYSTEM: The user has clicked the Submit button. ...]"]]

WELCOME == "assistant_message"

\* The list named messages inside get_claude_response: the caller's own list,
\* or the copy of line 205 when force_submit is set.
Messages == IF is_submit THEN submit_messages ELSE session_messages

Last(seq) == seq[Len(seq)]

\* No call of find_matching_blips has been observed.
NoFind == [n |-> 0, name |-> <<>>, result |-> <<>>, loaded |-> FALSE, before |-> <<>>]

\* No action of the dev-mode client has been observed.
NoDevAction ==
    [n |-> 0, kind |-> "none", gen |-> 1, writer |-> <<>>, text |-> <<>>,
     submit |-> FALSE, before |-> BlipSubmission, pending |-> "", pending_gen |-> 0,
     changes |-> <<>>]

\* No second connection has been accepted.
NoPeer == [pc |-> "none"]

\* Calls of save_submission that run concurrently.
MaxSavers == 3
Savers == 1..MaxSavers

\* A path that names no file.
NoFile == [exists |-> FALSE, valid |-> FALSE, records |-> <<>>, ino |-> <<0, "none">>]

\* save_submission has not been called.
NoSave == [pc |-> "idle", submissions |-> <<>>, fd |-> <<0, "none">>]

\* No operation on the session store has been observed.
NoStoreOp ==
    [n |-> 0, op |-> "none", id |-> "", returned |-> 0, created |-> FALSE,
     before |-> <<>>, at |-> 0]

\* The state of a new connection, the record, the welcome and the corpus aside.
InitTurn ==
    /\ session_messages = <<>>
    /\ submitted = FALSE
    /\ h_pc = "receive"
    /\ is_submit = FALSE
    /\ full_text = ""
    /\ submissions = <<>>
    /\ receives = 0
    /\ g_pc = "none"
    /\ submit_messages = <<>>
    /\ system = NoSystem
    /\ collected_text = ""
    /\ tool_uses = <<>>
    /\ tool_results = <<>>
    /\ chunk = NoChunk
    /\ exc = "none"
    /\ stream_events = 0
    /\ next_tool_id = 1
    /\ arrived = <<>>
    /\ events = <<>>
    /\ model_calls = <<>>
    /\ rounds = 0
    /\ turn_start = [blip |-> BlipSubmission, messages |-> <<>>, first_tool_id |-> 1]
    /\ xd = [n |-> 0, data |-> EmptyDict, prev |-> BlipSubmission, raised |-> FALSE,
             result |-> Null]
    /\ fm = NoFind
    /\ _pending_field = <<>>
    /\ blip_id = 1
    /\ dt = NoDevAction
    /\ peer = NoPeer
    /\ file = NoFile
    /\ tmp = NoFile
    /\ lock = 0
    /\ saver = [p \in Savers |-> NoSave]
    /\ _sessions = <<>>
    /\ now = 0
    /\ so = NoStoreOp

\* A connection is accepted after lifespan has loaded the corpus.
Init ==
    /\ blip = BlipSubmission
    /\ ws_out = <<WELCOME, "quality_update">>
    /\ _history = RadarHistory
    /\ csv_files = RadarHistory
    /\ InitTurn

(***************************************************************************)
(* websocket_endpoint: receiving                                           *)
(***************************************************************************)
RawMessages == {<<>>, <<" ">>, <<"h", "i">>}

\* action == "reset": session.reset() and the welcome again.
ReceiveReset ==
    /\ h_pc = "receive"
    /\ receives < MaxReceives
    /\ receives' = receives + 1
    /\ session_messages' = <<>>
    /\ blip' = BlipSubmission
    /\ submitted' = FALSE
    /\ ws_out' = ws_out \o <<WELCOME, "quality_update">>
    /\ UNCHANGED <<h_pc, is_submit, full_text, submissions, gen_vars, model_vars,
                   history_vars, xd, radar_vars, dev_vars, peer, env_vars>>

\* A message or a submit action: lines 236-259, up to the call of
\* get_claude_response.
StartTurn(raw, submit) ==
    LET user_message == sanitize_user_message(Strip(raw)) IN
    /\ h_pc = "receive"
    /\ receives < MaxReceives
    /\ receives' = receives + 1
    /\ IF user_message = <<>> /\ ~submit
       THEN UNCHANGED <<session_vars, h_pc, is_submit, full_text, ws_out, submissions,
                        gen_vars, model_vars, history_vars, xd, radar_vars, dev_vars, peer, env_vars>>
       ELSE /\ session_messages' =
                 IF user_message # <<>>
                 THEN Append(session_messages,
                             [role |-> "user", content |-> [t |-> "chars", v |-> user_message]])
                 ELSE session_messages
            /\ is_submit' = submit
            /\ full_text' = ""
            /\ h_pc' = "turn"
            /\ g_pc' = "start"
            /\ events' = <<>>
            /\ model_calls' = <<>>
            /\ rounds' = 0
            /\ exc' = "none"
            /\ turn_start' = [blip |-> blip, messages |-> session_messages',
                              first_tool_id |-> next_tool_id]
            /\ UNCHANGED <<blip, submitted, ws_out, submissions, submit_messages, system,
                           collected_text, tool_uses, tool_results, chunk, model_vars, xd, radar_vars, dev_vars, peer, env_vars>>

ReceiveMessage == \E raw \in RawMessages : StartTurn(raw, FALSE)

ReceiveSubmit == \E raw \in RawMessages : StartTurn(raw, TRUE)

(***************************************************************************)
(* get_claude_response                                                     *)
(***************************************************************************)
\* A variant of GenStart that appends the submit hint to the caller's list.
GenStart_HintInPlace ==
    /\ g_pc = "start"
    /\ system' = build_system(blip)
    /\ session_messages' =
         IF is_submit THEN Append(session_messages, SUBMIT_HINT) ELSE session_messages
    /\ submit_messages' = IF is_submit THEN session_messages' ELSE <<>>
    /\ g_pc' = "open"
    /\ UNCHANGED <<blip, submitted, handler_vars, collected_text, tool_uses, tool_results,
                   chunk, exc, model_vars, history_vars, xd, radar_vars, dev_vars, peer, env_vars>>

\* Lines 191-205: the first system prompt, and the submit hint.
GenStart ==
    /\ g_pc = "start"
    /\ system' = build_system(blip)
    /\ submit_messages' = IF is_submit THEN Append(session_messages, SUBMIT_HINT) ELSE <<>>
    /\ g_pc' = "open"
    /\ UNCHANGED <<session_vars, handler_vars, collected_text, tool_uses, tool_results,
                   chunk, exc, model_vars, history_vars, xd, radar_vars, dev_vars, peer, env_vars>>

\* Lines 208-218: one model call.
OpenStream ==
    /\ g_pc = "open"
    /\ collected_text' = ""
    /\ tool_uses' = <<>>
    /\ model_calls' = Append(model_calls,
                              [system |-> system, messages |-> Messages,
                               blip |-> blip, caller_messages |-> session_messages])
    /\ arrived' = <<>>
    /\ g_pc' = "streaming"
    /\ UNCHANGED <<session_vars, handler_vars, submit_messages, system, tool_results,
                   chunk, exc, stream_events, next_tool_id, events, rounds, turn_start, xd, radar_vars, dev_vars, peer, env_vars>>

\* A stream event can be taken when the caller has taken the last chunk.
CanStream ==
    /\ g_pc = "streaming"
    /\ chunk = NoChunk
    /\ stream_events < MaxStreamEvents

\* content_block_start of a tool_use block (lines 220-229).
StreamToolStart ==
    \E name \in ToolNames :
        /\ CanStream
        /\ stream_events' = stream_events + 1
        /\ tool_uses' = Append(tool_uses,
                               [id |-> next_tool_id, name |-> name, input_json |-> ""])
        /\ next_tool_id' = next_tool_id + 1
        /\ arrived' = Append(arrived, [type |-> "content_block_start",
                                       id |-> next_tool_id, partial_json |-> ""])
        /\ UNCHANGED <<session_vars, handler_vars, g_pc, submit_messages, system,
                       collected_text, tool_results, chunk, exc, history_vars, xd, radar_vars, dev_vars, peer, env_vars>>

\* content_block_delta with a text (lines 231-233).
StreamTextDelta ==
    \E text \in TextDeltas :
        /\ CanStream
        /\ stream_events' = stream_events + 1
        /\ collected_text' = collected_text \o text
        /\ chunk' = [type |-> "text_delta", text |-> text]
        /\ events' = Append(events, [chunk |-> chunk', call |-> 0])
        /\ UNCHANGED <<session_vars, handler_vars, g_pc, submit_messages, system,
                       tool_uses, tool_results, exc, next_tool_id, arrived, model_calls, rounds,
                       turn_start, xd, radar_vars, dev_vars, peer, env_vars>>

\* A variant of AppendFragment that appends to the first tool call of the
\* stream instead of the last one opened.
AppendFragment_ToFirst(uses, frag) ==
    IF uses = <<>> THEN uses
    ELSE [uses EXCEPT ![1].input_json = @ \o frag]

\* content_block_delta with a partial_json (lines 234-236).
AppendFragment(uses, frag) ==
    IF uses = <<>> THEN uses
    ELSE [uses EXCEPT ![Len(uses)].input_json = @ \o frag]

StreamJsonDelta ==
    \E frag \in Fragments :
        /\ CanStream
        /\ stream_events' = stream_events + 1
        /\ tool_uses' = AppendFragment(tool_uses, frag)
        /\ arrived' = Append(arrived, [type |-> "content_block_delta",
                                       id |-> 0, partial_json |-> frag])
        /\ UNCHANGED <<session_vars, handler_vars, g_pc, submit_messages, system,
                       collected_text, tool_results, chunk, exc, next_tool_id, history_vars,
                       xd, radar_vars, dev_vars, peer, env_vars>>

\* The stream fails while it is opened or consumed: the exception leaves
\* get_claude_response, which handles none.
StreamFail ==
    /\ g_pc = "streaming"
    /\ chunk = NoChunk
    /\ g_pc' = "raised"
    /\ arrived' = <<>>
    /\ exc' = "APIConnectionError"
    /\ UNCHANGED <<session_vars, handler_vars, submit_messages, system, collected_text,
                   tool_uses, tool_results, chunk, stream_events, next_tool_id, history_vars, xd, radar_vars, dev_vars, peer, env_vars>>

\* A variant of StreamEndNoTools that records the text of the turn in the
\* transcript before it yields done.
StreamEndNoTools_RecordsText ==
    /\ g_pc = "streaming"
    /\ chunk = NoChunk
    /\ tool_uses = <<>>
    /\ chunk' = [type |-> "done"]
    /\ events' = Append(events, [chunk |-> chunk', call |-> 0])
    /\ g_pc' = "done"
    /\ arrived' = <<>>
    /\ session_messages' =
         Append(session_messages,
                [role |-> "assistant", content |-> [t |-> "text", v |-> collected_text]])
    /\ UNCHANGED <<blip, submitted, handler_vars, submit_messages, system, collected_text,
                   tool_uses, tool_results, exc, stream_events, next_tool_id, model_calls, rounds,
                   turn_start, xd, radar_vars, dev_vars, peer, env_vars>>

\* End of stream without tool calls (lines 239-241).
StreamEndNoTools ==
    /\ g_pc = "streaming"
    /\ chunk = NoChunk
    /\ tool_uses = <<>>
    /\ chunk' = [type |-> "done"]
    /\ events' = Append(events, [chunk |-> chunk', call |-> 0])
    /\ g_pc' = "done"
    /\ arrived' = <<>>
    /\ UNCHANGED <<session_vars, handler_vars, submit_messages, system, collected_text,
                   tool_uses, tool_results, exc, stream_events, next_tool_id, model_calls, rounds,
                   turn_start, xd, radar_vars, dev_vars, peer, env_vars>>


\* messages.append(m) inside get_claude_response.
MessagesAppend(m) ==
    IF is_submit
    THEN /\ submit_messages' = Append(submit_messages, m)
         /\ UNCHANGED session_messages
    ELSE /\ session_messages' = Append(session_messages, m)
         /\ UNCHANGED submit_messages

\* Lines 245-260: the content blocks of the assistant message.
ToolUseBlock(tu) ==
    [type |-> "tool_use", id |-> tu.id, name |-> tu.name,
     input |-> ParseToolInput(tu.input_json)]

\* A variant of AssistantContent that puts the text block after the tool-use
\* blocks.
AssistantContent_TextLast(text, uses) ==
    [i \in 1..Len(uses) |->
       [type |-> "tool_use", id |-> uses[i].id, name |-> uses[i].name,
        input |-> ParseToolInput(uses[i].input_json)]]
    \o (IF text # "" THEN <<[type |-> "text", text |-> text]>> ELSE <<>>)

AssistantContent(text, uses) ==
    (IF text # "" THEN <<[type |-> "text", text |-> text]>> ELSE <<>>)
    \o [i \in 1..Len(uses) |-> ToolUseBlock(uses[i])]

\* End of stream with tool calls (lines 239-265): the assistant message.
StreamEndTools ==
    /\ g_pc = "streaming"
    /\ chunk = NoChunk
    /\ tool_uses # <<>>
    /\ MessagesAppend([role |-> "assistant",
                       content |-> [t |-> "blocks",
                                    v |-> AssistantContent(collected_text, tool_uses)]])
    /\ tool_results' = <<>>
    /\ g_pc' = "dispatch"
    /\ arrived' = <<>>
    /\ UNCHANGED <<blip, submitted, handler_vars, system, collected_text, tool_uses,
                   chunk, exc, stream_events, next_tool_id, history_vars, xd, radar_vars, dev_vars, peer, env_vars>>

\* load_history(): _history becomes the blips parsed from the CSV files.
load_history(files) == files

\* The corpus find_matching_blips works on: if not _history: load_history()
HistoryForFind == IF _history = <<>> THEN load_history(csv_files) ELSE _history

\* tool_input.get("name", "") of line 273: AttributeError unless tool_input is a
\* dict, and find_matching_blips needs a str.
HistoryQuery(tool_input) ==
    IF tool_input.t # "dict" THEN [raised |-> TRUE]
    ELSE IF "name" \notin DOMAIN tool_input.v THEN [raised |-> FALSE, name |-> <<>>]
    ELSE IF tool_input.v["name"].t # "str" THEN [raised |-> TRUE]
    ELSE [raised |-> FALSE, name |-> tool_input.v["name"].v]

\* A variant of NextCallIndex that walks tool_uses from its end.
NextCallIndex_Reversed == Len(tool_uses) - Len(tool_results)

\* The index in tool_uses of the call the loop of line 266 takes next.
NextCallIndex == Len(tool_results) + 1

\* One pass of the loop of lines 266-295 for the call tu on the record b:
\* whether it raises, the record after it, the result, and whether a
\* tool_result chunk is yielded.
DispatchCall(tu, b) ==
    LET tool_input == ParseToolInput(tu.input_json) IN
    IF tu.name = "check_radar_history"
    THEN LET q == HistoryQuery(tool_input) IN
         IF q.raised THEN [raised |-> TRUE, exc |-> "AttributeError", blip |-> b]
         ELSE [raised |-> FALSE, blip |-> b, yields |-> TRUE,
               result |-> handle_check_history(HistoryForFind, q.name)]
    ELSE IF tu.name = "extract_blip_data"
    THEN LET r == handle_extract_blip(tool_input, b) IN
         IF r.raised THEN [raised |-> TRUE, exc |-> "ValidationError", blip |-> b]
         ELSE [raised |-> FALSE, blip |-> r.blip, yields |-> TRUE, result |-> r.result]
    ELSE [raised |-> FALSE, blip |-> b, yields |-> FALSE,
          result |-> [error |-> "Unknown tool", name |-> tu.name]]

ToolResultBlock(tu, result) ==
    [type |-> "tool_result", tool_use_id |-> tu.id, content |-> json_dumps(result)]

\* The next tool call is dispatched (lines 266-295).
Dispatch ==
    /\ g_pc = "dispatch"
    /\ chunk = NoChunk
    /\ Len(tool_results) < Len(tool_uses)
    /\ LET tu == tool_uses[NextCallIndex]
           d == DispatchCall(tu, blip)
       IN IF d.raised
          THEN /\ g_pc' = "raised"
               /\ exc' = d.exc
               /\ UNCHANGED <<blip, tool_results, chunk, events>>
          ELSE /\ blip' = d.blip
               /\ tool_results' = Append(tool_results, ToolResultBlock(tu, d.result))
               /\ chunk' = IF d.yields
                           THEN [type |-> "tool_result", tool_name |-> tu.name,
                                 data |-> d.result]
                           ELSE NoChunk
               /\ events' = IF d.yields
                            THEN Append(events, [chunk |-> chunk', call |-> tu.id])
                            ELSE events
               /\ UNCHANGED <<g_pc, exc>>
    /\ _history' = IF tool_uses[NextCallIndex].name = "check_radar_history"
                       /\ ~DispatchCall(tool_uses[NextCallIndex], blip).raised
                    THEN HistoryForFind
                    ELSE _history
    /\ UNCHANGED <<session_messages, submitted, handler_vars, submit_messages, system,
                   collected_text, tool_uses, model_vars, model_calls, rounds,
                   turn_start, xd, csv_files, fm, dev_vars, peer, env_vars>>

\* A variant of FinishRound that keeps the system prompt of the last call.
FinishRound_StaleSystem ==
    /\ g_pc = "dispatch"
    /\ chunk = NoChunk
    /\ Len(tool_results) = Len(tool_uses)
    /\ MessagesAppend([role |-> "user", content |-> [t |-> "blocks", v |-> tool_results]])
    /\ rounds' = rounds + 1
    /\ g_pc' = "open"
    /\ UNCHANGED <<blip, submitted, handler_vars, system, collected_text, tool_uses,
                   tool_results, chunk, exc, model_vars, events, model_calls, turn_start,
                   xd, radar_vars, dev_vars, peer, env_vars>>

\* Lines 297-300: the tool results join the transcript, the system prompt is
\* rebuilt, and the loop goes round.
FinishRound ==
    /\ g_pc = "dispatch"
    /\ chunk = NoChunk
    /\ Len(tool_results) = Len(tool_uses)
    /\ MessagesAppend([role |-> "user", content |-> [t |-> "blocks", v |-> tool_results]])
    /\ system' = build_system(blip)
    /\ rounds' = rounds + 1
    /\ g_pc' = "open"
    /\ UNCHANGED <<blip, submitted, handler_vars, collected_text, tool_uses, tool_results,
                   chunk, exc, model_vars, events, model_calls, turn_start, xd, radar_vars, dev_vars, peer, env_vars>>

(***************************************************************************)
(* websocket_endpoint: the turn                                            *)
(***************************************************************************)
\* The body of the async for (lines 261-276) for one chunk.
HandleChunk ==
    /\ h_pc = "turn"
    /\ chunk # NoChunk
    /\ chunk' = NoChunk
    /\ full_text' = IF chunk.type = "text_delta" THEN full_text \o chunk.text ELSE full_text
    /\ ws_out' =
         IF chunk.type = "text_delta" THEN Append(ws_out, "assistant_chunk")
         ELSE IF chunk.type = "tool_result" /\ chunk.tool_name = "extract_blip_data"
         THEN Append(ws_out, "quality_update")
         ELSE ws_out
    /\ session_messages' =
         IF chunk.type = "done" /\ full_text # ""
         THEN Append(session_messages,
                     [role |-> "assistant", content |-> [t |-> "text", v |-> full_text]])
         ELSE session_messages
    /\ UNCHANGED <<blip, submitted, h_pc, is_submit, submissions, receives, g_pc,
                   submit_messages, system, collected_text, tool_uses, tool_results,
                   exc, model_vars, history_vars, xd, radar_vars, dev_vars, peer, env_vars>>

\* save_submission(blip, session_id): the record appended to the file.
SavedRecord(b) == [record |-> model_dump(b)]

\* A variant of TurnEnd that saves on every submit action.
TurnEnd_AnySubmit ==
    /\ h_pc = "turn"
    /\ g_pc = "done"
    /\ chunk = NoChunk
    /\ g_pc' = "none"
    /\ h_pc' = "receive"
    /\ IF is_submit
       THEN /\ submitted' = TRUE
            /\ submissions' = Append(submissions, SavedRecord(blip))
            /\ ws_out' = ws_out \o <<"assistant_done", "submission_complete">>
       ELSE /\ ws_out' = Append(ws_out, "assistant_done")
            /\ UNCHANGED <<submitted, submissions>>
    /\ UNCHANGED <<session_messages, blip, is_submit, full_text, receives, submit_messages,
                   system, collected_text, tool_uses, tool_results, chunk, exc, model_vars,
                   history_vars, xd, radar_vars, dev_vars, peer, env_vars>>

\* The generator has returned: lines 278-291.
TurnEnd ==
    /\ h_pc = "turn"
    /\ g_pc = "done"
    /\ chunk = NoChunk
    /\ g_pc' = "none"
    /\ h_pc' = "receive"
    /\ IF is_submit /\ ~submitted
       THEN /\ submitted' = TRUE
            /\ submissions' = Append(submissions, SavedRecord(blip))
            /\ ws_out' = ws_out \o <<"assistant_done", "submission_complete">>
       ELSE /\ ws_out' = Append(ws_out, "assistant_done")
            /\ UNCHANGED <<submitted, submissions>>
    /\ UNCHANGED <<session_messages, blip, is_submit, full_text, receives, submit_messages,
                   system, collected_text, tool_uses, tool_results, chunk, exc, model_vars,
                   history_vars, xd, radar_vars, dev_vars, peer, env_vars>>

\* An exception left get_claude_response: except Exception (lines 295-305).
HandlerError ==
    /\ h_pc = "turn"
    /\ g_pc = "raised"
    /\ g_pc' = "none"
    /\ h_pc' = "closed"
    /\ ws_out' = Append(ws_out, "error")
    /\ UNCHANGED <<session_vars, is_submit, full_text, submissions, receives,
                   submit_messages, system, collected_text, tool_uses, tool_results,
                   chunk, exc, model_vars, history_vars, xd, radar_vars, dev_vars, peer, env_vars>>

Next ==
    \/ ReceiveReset
    \/ ReceiveMessage
    \/ ReceiveSubmit
    \/ GenStart
    \/ OpenStream
    \/ StreamToolStart
    \/ StreamTextDelta
    \/ StreamJsonDelta
    \/ StreamFail
    \/ StreamEndNoTools
    \/ StreamEndTools
    \/ Dispatch
    \/ FinishRound
    \/ HandleChunk
    \/ TurnEnd
    \/ HandlerError

Spec == Init /\ [][Next]_vars

(***************************************************************************)
(* app/mock_client.py: the client of DEV_MODE                              *)
(***************************************************************************)
MaxDevActions == 4
MaxRecordIds == 3

\* _RING_MAP and _QUAD_MAP, in the order of their keys.
RING_MAP ==
    <<[k |-> <<"a", "d", "o", "p", "t">>, v |-> "Adopt"],
      [k |-> <<"t", "r", "i", "a", "l">>, v |-> "Trial"],
      [k |-> <<"a", "s", "s", "e", "s", "s">>, v |-> "Assess"],
      [k |-> <<"h", "o", "l", "d">>, v |-> "Hold"]>>

QUAD_MAP ==
    <<[k |-> <<"t", "e", "c", "h", "n", "i", "q", "u", "e", "s">>, v |-> "Techniques"],
      [k |-> <<"t", "o", "o", "l", "s">>, v |-> "Tools"],
      [k |-> <<"p", "l", "a", "t", "f", "o", "r", "m", "s">>, v |-> "Platforms"],
      [k |-> <<"l", "a", "n", "g", "u", "a", "g", "e", "s", " ", "&", " ", "f", "r", "a", "m", "e", "w", "o", "r", "k", "s">>, v |-> "Languages & Frameworks"],
      [k |-> <<"l", "a", "n", "g", "u", "a", "g", "e", "s", " ", "a", "n", "d", " ", "f", "r", "a", "m", "e", "w", "o", "r", "k", "s">>, v |-> "Languages & Frameworks"],
      [k |-> <<"l", "a", "n", "g", "u", "a", "g", "e", "s", "-", "a", "n", "d", "-", "f", "r", "a", "m", "e", "w", "o", "r", "k", "s">>, v |-> "Languages & Frameworks"],
      [k |-> <<"f", "r", "a", "m", "e", "w", "o", "r", "k", "s">>, v |-> "Languages & Frameworks"],
      [k |-> <<"l", "a", "n", "g", "u", "a", "g", "e", "s">>, v |-> "Languages & Frameworks"]>>

\* for keyword, value in map.items(): if keyword in lower: ...; break
KeywordValue(map, lower) ==
    LET hits == {i \in 1..Len(map) : IsSubstring(map[i].k, lower)}
    IN IF hits = {} THEN Null
       ELSE Enum(map[CHOOSE i \in hits : \A j \in hits : i <= j].v)

\* re.search(q([^q]+)q, text).group(1) for a quote character q, <<>> when the
\* pattern is not found.
Quoted(text, q) ==
    LET Closes(i, j) == text[j] = q /\ \A k \in (i + 1)..(j - 1) : text[k] # q
        opens == {i \in 1..Len(text) :
                    text[i] = q /\ \E j \in (i + 2)..Len(text) : Closes(i, j)}
    IN IF opens = {} THEN <<>>
       ELSE LET i == CHOOSE o \in opens : \A o2 \in opens : o <= o2
                j == CHOOSE c \in (i + 2)..Len(text) : Closes(i, c)
            IN SubSeq(text, i + 1, j - 1)

\* The texts the pattern (?i)^(i'?d? ?like to submit|i want to submit|let'?s do|
\* how about|submit|what about|i'?m submitting) matches; none is the start of
\* another.
FillerPhrases ==
    {<<"i", "'", "d", " ", "l", "i", "k", "e", " ", "t", "o", " ", "s", "u", "b", "m", "i", "t">>,
     <<"i", "'", "d", "l", "i", "k", "e", " ", "t", "o", " ", "s", "u", "b", "m", "i", "t">>,
     <<"i", "'", " ", "l", "i", "k", "e", " ", "t", "o", " ", "s", "u", "b", "m", "i", "t">>,
     <<"i", "'", "l", "i", "k", "e", " ", "t", "o", " ", "s", "u", "b", "m", "i", "t">>,
     <<"i", "d", " ", "l", "i", "k", "e", " ", "t", "o", " ", "s", "u", "b", "m", "i", "t">>,
     <<"i", "d", "l", "i", "k", "e", " ", "t", "o", " ", "s", "u", "b", "m", "i", "t">>,
     <<"i", " ", "l", "i", "k", "e", " ", "t", "o", " ", "s", "u", "b", "m", "i", "t">>,
     <<"i", "l", "i", "k", "e", " ", "t", "o", " ", "s", "u", "b", "m", "i", "t">>,
     <<"i", " ", "w", "a", "n", "t", " ", "t", "o", " ", "s", "u", "b", "m", "i", "t">>,
     <<"l", "e", "t", "'", "s", " ", "d", "o">>,
     <<"l", "e", "t", "s", " ", "d", "o">>,
     <<"h", "o", "w", " ", "a", "b", "o", "u", "t">>,
     <<"s", "u", "b", "m", "i", "t">>,
     <<"w", "h", "a", "t", " ", "a", "b", "o", "u", "t">>,
     <<"i", "'", "m", " ", "s", "u", "b", "m", "i", "t", "t", "i", "n", "g">>,
     <<"i", "m", " ", "s", "u", "b", "m", "i", "t", "t", "i", "n", "g">>}

\* re.sub of that pattern followed by \s*, then .strip().rstrip(".,!?").
StripFiller(text) ==
    LET lower == Lower(text)
        hits == {p \in FillerPhrases : Len(p) <= Len(text) /\ SubSeq(lower, 1, Len(p)) = p}
        rest == IF hits = {} THEN text
                ELSE SubSeq(text, Len(CHOOSE p \in hits : TRUE) + 1, Len(text))
        stripped == Strip(rest)
        marks == {".", ",", "!", "?"}
    IN IF \A i \in 1..Len(stripped) : stripped[i] \in marks THEN <<>>
       ELSE SubSeq(stripped, 1,
                   CHOOSE i \in 1..Len(stripped) :
                       stripped[i] \notin marks
                       /\ \A j \in (i + 1)..Len(stripped) : stripped[j] \in marks)

\* The class \w.
WordChars ==
    {UpperCase[i] : i \in 1..Len(UpperCase)} \cup {LowerCase[i] : i \in 1..Len(LowerCase)}
    \cup {"0", "1", "2", "3", "4", "5", "6", "7", "8", "9", "_"}

\* The last position of the run of characters of class that starts at i, and
\* i - 1 when position i holds no such character.
RunFrom(s, class, i) ==
    IF i > Len(s) \/ s[i] \notin class THEN i - 1 ELSE RunEnd(s, class, i)

\* re.search(r"(?:my name is|i'm|I am)\s+(\w+(?:\s+\w+)?)", text,
\* re.IGNORECASE).group(1), <<>> when the pattern is not found.
NameMatch(text) ==
    LET lower == Lower(text)
        Phrases == {<<"m", "y", " ", "n", "a", "m", "e", " ", "i", "s">>, <<"i", "'", "m">>, <<"i", " ", "a", "m">>}
        \* the first position after the phrase and the whitespace behind it
        WordAt(i, p) == RunFrom(text, Whitespace, i + Len(p)) + 1
        Matches(i, p) ==
            /\ i + Len(p) - 1 <= Len(text)
            /\ SubSeq(lower, i, i + Len(p) - 1) = p
            /\ WordAt(i, p) > i + Len(p)
            /\ RunFrom(text, WordChars, WordAt(i, p)) >= WordAt(i, p)
        hits == {i \in 1..Len(text) : \E p \in Phrases : Matches(i, p)}
    IN IF hits = {} THEN <<>>
       ELSE LET i == CHOOSE h \in hits : \A h2 \in hits : h <= h2
                p == CHOOSE q \in Phrases : Matches(i, q)
                b == WordAt(i, p)
                c == RunFrom(text, WordChars, b)
                d == RunFrom(text, Whitespace, c + 1) + 1
                e == RunFrom(text, WordChars, d)
            IN IF d > c + 1 /\ e >= d THEN SubSeq(text, b, e) ELSE SubSeq(text, b, c)

\* re.search(r"[\w.+-]+@[\w-]+\.[\w.]+", text).group(0), <<>> when the pattern
\* is not found.
EmailMatch(text) ==
    LET local == WordChars \cup {".", "+", "-"}
        host == WordChars \cup {"-"}
        suffix == WordChars \cup {"."}
        HostEnd(k) == RunFrom(text, host, k + 1)
        Matches(k) ==
            /\ text[k] = "@"
            /\ k > 1 /\ text[k - 1] \in local
            /\ HostEnd(k) > k
            /\ HostEnd(k) + 2 <= Len(text)
            /\ text[HostEnd(k) + 1] = "."
            /\ text[HostEnd(k) + 2] \in suffix
        hits == {k \in 1..Len(text) : Matches(k)}
    IN IF hits = {} THEN <<>>
       ELSE LET k == CHOOSE h \in hits : \A h2 \in hits : h <= h2
            IN SubSeq(text, RunStart(text, local, k - 1),
                      RunEnd(text, suffix, HostEnd(k) + 2))

\* Str(s) for a match, None for <<>>.
Found(s) == IF s = <<>> THEN Null ELSE Str(s)

\* The first of two matches that is one.
FirstOf(s1, s2) == IF s1 # <<>> THEN s1 ELSE s2

\* The keyword extraction of _extract_fields_from_text(text, blip), lines
\* 47-97: the value found for each field, None when nothing is found.
keyword_extraction(text, b) ==
    [ring |-> KeywordValue(RING_MAP, Lower(text)),
     quadrant |-> KeywordValue(QUAD_MAP, Lower(text)),
     name |-> IF ~IsNull(b["name"]) THEN Null
              ELSE Found(FirstOf(FirstOf(Quoted(text, "\""), Quoted(text, "'")),
                                 StripFiller(text))),
     client_references |->
         LET refs == IF IsNull(b["client_references"]) THEN <<>>
                     ELSE b["client_references"].v
         IN IF /\ \E w \in {<<"c", "l", "i", "e", "n", "t">>,
                            <<"p", "r", "o", "d", "u", "c", "t", "i", "o", "n">>,
                            <<"p", "r", "o", "j", "e", "c", "t">>} :
                      IsSubstring(w, Lower(text))
               /\ \A i \in 1..Len(refs) : refs[i] # Truncate(text, 120)
            THEN List(Append(refs, Truncate(text, 120)))
            ELSE Null,
     description |-> IF Len(text) > 80 /\ IsNull(b["description"]) THEN Str(text) ELSE Null,
     submitter_name |-> IF IsNull(b["submitter_name"]) THEN Found(NameMatch(text)) ELSE Null,
     submitter_contact |-> Found(EmailMatch(text))]

\* The pending-field fallback, lines 99-118: found with the answer to the
\* pending field, when the extraction has not filled that field, it is no
\* enum field and the record holds nothing for it.
pending_fallback(found, text, b, pending) ==
    LET keys == {f \in DOMAIN found : ~IsNull(found[f])}
        fallback == /\ pending # ""
                    /\ pending \notin keys
                    /\ pending \notin {"ring", "quadrant"}
                    /\ IsNull(b[pending])
    IN [f \in keys \cup (IF fallback THEN {pending} ELSE {}) |->
          IF f \in keys THEN found[f]
          ELSE IF pending \in ListFields THEN List(<<Strip(text)>>) ELSE Str(Strip(text))]

\* _extract_fields_from_text(text, blip): the changes, as a function of the
\* fields it fills; pending is the entry popped from _pending_field for
\* id(blip), "" when there is none.
extract_fields_from_text(text, b, pending) ==
    pending_fallback(keyword_extraction(text, b), text, b, pending)

\* _pick_response(blip, user_text, is_submit)[1]: the field the response asks
\* about, "" for None.
pick_pending(b, submit_action) ==
    LET Unset(f) == IsNull(b[f])
        Falsy(f) == IsNull(b[f]) \/ b[f].v = <<>>
    IN IF submit_action THEN ""
       ELSE IF Unset("name") THEN "name"
       ELSE IF Unset("ring") THEN "ring"
       ELSE IF Unset("quadrant") THEN "quadrant"
       ELSE IF Unset("description") THEN "description"
       ELSE IF Falsy("client_references") THEN "client_references"
       ELSE IF Falsy("alternatives_considered") THEN "alternatives_considered"
       ELSE IF Unset("weaknesses") THEN "weaknesses"
       ELSE IF Unset("why_now") THEN "why_now"
       ELSE IF Unset("submitter_name") THEN "submitter_name"
       ELSE IF Unset("submitter_contact") THEN "submitter_contact"
       ELSE ""

\* The user_text of get_mock_response: the content of the latest user message.
LatestUserText(messages) ==
    LET users == {i \in 1..Len(messages) :
                    messages[i].role = "user" /\ messages[i].content.t = "chars"}
    IN IF users = {} THEN <<>>
       ELSE messages[CHOOSE i \in users : \A j \in users : j <= i].content.v

\* The record after lines 295-303 of get_mock_response: the changes assigned
\* and the scores stored.
apply_changes(changes, b) ==
    IF DOMAIN changes = {} THEN b
    ELSE StoreScores([f \in BlipFields |-> IF f \in DOMAIN changes THEN changes[f] ELSE b[f]])

\* Whether get_mock_response calls find_matching_blips: with the name it has
\* just learned (line 281), or for its duplicate notice (line 329).
looks_up(changes, b, changed) ==
    "name" \in DOMAIN changes /\ (IsNull(b["name"]) \/ changed["name"].v # <<>>)

\* The response of get_mock_response, as the branch of _pick_response, the
\* record it is written from and the appearances its duplicate notice lists.
response_text(changes, changed, force_submit) ==
    [asks |-> pick_pending(changed, force_submit),
     submit |-> force_submit,
     state |-> model_dump(changed),
     appearances |-> IF "name" \in DOMAIN changes /\ changed["name"].v # <<>>
                     THEN find_matching_blips(HistoryForFind, changed["name"].v)
                     ELSE <<>>]

\* The messages a user of the dev mode sends.
DevTexts == {<<>>, <<"?">>, <<"!">>, sDocker, sTrial}

RecordIds == 1..MaxRecordIds

\* The entry of _pending_field for the record, "" when it has none.
PendingOf(id) == IF id \in DOMAIN _pending_field THEN _pending_field[id] ELSE ""

\* action == "reset" in dev mode: reset() replaces the record by a new object,
\* created while the old one is still referenced; its id is any id but that
\* of the old record, the id of a record discarded earlier included.
\* _pending_field is not touched.
DevReset ==
    \E id \in RecordIds \ {blip_id} :
        /\ dt.n < MaxDevActions
        /\ session_messages' = <<>>
        /\ blip' = BlipSubmission
        /\ blip_id' = id
        /\ submitted' = FALSE
        /\ ws_out' = ws_out \o <<WELCOME, "quality_update">>
        /\ receives' = receives + 1
        /\ dt' = [dt EXCEPT !.n = dt.n + 1, !.kind = "reset", !.gen = dt.gen + 1]
        /\ UNCHANGED <<h_pc, is_submit, full_text, submissions, gen_vars, model_vars,
                       history_vars, xd, radar_vars, _pending_field, peer, env_vars>>

\* The end of a turn in dev mode, for the transcript with the user message,
\* the changes of the turn and the record they give.
DevTurnEnd(messages, submit, changes, changed, response) ==
    /\ is_submit' = submit
    /\ blip' = changed
    /\ _history' = IF looks_up(changes, blip, changed) THEN HistoryForFind ELSE _history
    /\ _pending_field' =
         [i \in (DOMAIN _pending_field \ {blip_id})
                \cup (IF response.asks # "" THEN {blip_id} ELSE {}) |->
            IF i = blip_id THEN response.asks ELSE _pending_field[i]]
    /\ full_text' = response
    /\ session_messages' =
         Append(messages, [role |-> "assistant", content |-> [t |-> "mock", v |-> response]])
    /\ ws_out' = ws_out
                 \o (IF DOMAIN changes # {} THEN <<"quality_update">> ELSE <<>>)
                 \o <<"assistant_chunk", "assistant_done">>
                 \o (IF submit /\ ~submitted THEN <<"submission_complete">> ELSE <<>>)
    /\ submitted' = (submitted \/ submit)
    /\ submissions' = IF submit /\ ~submitted
                      THEN Append(submissions, SavedRecord(changed))
                      ELSE submissions
    /\ dt' = [n |-> dt.n + 1, kind |-> "turn", gen |-> dt.gen,
              \* the generation of the record each entry was written for
              writer |-> [i \in (DOMAIN dt.writer \ {blip_id})
                                \cup (IF response.asks # "" THEN {blip_id} ELSE {}) |->
                            IF i = blip_id THEN dt.gen ELSE dt.writer[i]],
              text |-> LatestUserText(messages),
              submit |-> submit,
              before |-> blip,
              pending |-> PendingOf(blip_id),
              pending_gen |-> IF blip_id \in DOMAIN dt.writer THEN dt.writer[blip_id] ELSE 0,
              changes |-> changes]
    /\ UNCHANGED <<h_pc, blip_id>>

\* get_mock_response on the transcript: the changes, the record, the response.
DevRespond(messages, submit, changes) ==
    DevTurnEnd(messages, submit, changes, apply_changes(changes, blip),
               response_text(changes, apply_changes(changes, blip), submit))

\* Lines 236-253 of main.py: the user message joins the transcript if it is
\* not empty.
WithUserMessage(user_message) ==
    IF user_message # <<>>
    THEN Append(session_messages,
                [role |-> "user", content |-> [t |-> "chars", v |-> user_message]])
    ELSE session_messages

\* A message or a submit action in dev mode: lines 236-291 of main.py with
\* get_mock_response in the place of get_claude_response. One assistant_chunk
\* stands for the chunks of the response, one per word.
DevTurn(raw, submit) ==
    /\ dt.n < MaxDevActions
    /\ receives' = receives + 1
    /\ IF sanitize_user_message(Strip(raw)) = <<>> /\ ~submit
       THEN /\ dt' = [dt EXCEPT !.n = dt.n + 1, !.kind = "skip"]
            /\ UNCHANGED <<session_vars, h_pc, is_submit, full_text, ws_out, submissions,
                           _history, _pending_field, blip_id>>
       ELSE DevRespond(WithUserMessage(sanitize_user_message(Strip(raw))), submit,
                       extract_fields_from_text(
                           LatestUserText(WithUserMessage(sanitize_user_message(Strip(raw)))),
                           blip, PendingOf(blip_id)))
    /\ UNCHANGED <<gen_vars, model_vars, history_vars, xd, csv_files, fm, peer, env_vars>>

DevMessage == \E raw \in DevTexts : DevTurn(raw, FALSE)

DevSubmit == \E raw \in DevTexts : DevTurn(raw, TRUE)

NextDev == DevReset \/ DevMessage \/ DevSubmit

SpecDev == Init /\ [][NextDev]_vars

(***************************************************************************)
(* Two connections with one session id                                     *)
(***************************************************************************)
MaxPeerReceives == 1

\* A second websocket is accepted with the session id of the first:
\* sessions.get_or_create (main.py:75-80) finds the session in the store and
\* returns the same object, and the welcome goes out on the new socket.
PeerAccept ==
    /\ peer.pc = "none"
    /\ peer' = [pc |-> "receive", receives |-> 0, full_text |-> "",
                out |-> <<WELCOME, "quality_update">>]
    /\ UNCHANGED <<session_vars, handler_vars, gen_vars, model_vars, history_vars, xd,
                   radar_vars, dev_vars, env_vars>>

\* The second connection receives the message "hi": lines 222-259, up to the
\* call of get_claude_response on session.messages and session.blip.
PeerReceive ==
    /\ peer.pc = "receive"
    /\ peer.receives < MaxPeerReceives
    /\ session_messages' =
         Append(session_messages,
                [role |-> "user", content |-> [t |-> "chars", v |-> <<"h", "i">>]])
    /\ peer' = [peer EXCEPT !.pc = "turn", !.receives = @ + 1, !.full_text = ""]
    /\ UNCHANGED <<blip, submitted, handler_vars, gen_vars, model_vars, history_vars, xd,
                   radar_vars, dev_vars, env_vars>>

\* The model answers the turn of the second connection with one text and no
\* tool call: text_delta, then done (lines 260-279).
PeerTurnEnd ==
    \E text \in TextDeltas :
        /\ peer.pc = "turn"
        /\ session_messages' =
             Append(session_messages,
                    [role |-> "assistant", content |-> [t |-> "text", v |-> text]])
        /\ peer' = [peer EXCEPT !.pc = "receive", !.full_text = text,
                                !.out = @ \o <<"assistant_chunk", "assistant_done">>]
        /\ UNCHANGED <<blip, submitted, handler_vars, gen_vars, model_vars, history_vars,
                       xd, radar_vars, dev_vars, env_vars>>

\* The first connection with a model that opens no tool call, and the second.
NextShared ==
    \/ ReceiveReset
    \/ ReceiveMessage
    \/ ReceiveSubmit
    \/ GenStart
    \/ OpenStream
    \/ StreamTextDelta
    \/ StreamEndNoTools
    \/ HandleChunk
    \/ TurnEnd
    \/ PeerAccept
    \/ PeerReceive
    \/ PeerTurnEnd

SpecShared == Init /\ [][NextShared]_vars

(***************************************************************************)
(* A session that has been submitted                                       *)
(***************************************************************************)
\* The connection after a first turn that was a submit action with no text,
\* to which the model answered without text and without tool calls: the
\* record is empty, saved and marked submitted.
AfterFirstSubmit ==
    /\ blip = BlipSubmission
    /\ _history = RadarHistory
    /\ csv_files = RadarHistory
    /\ session_messages = <<>>
    /\ submitted = TRUE
    /\ h_pc = "receive"
    /\ is_submit = TRUE
    /\ full_text = ""
    /\ ws_out = <<WELCOME, "quality_update", "assistant_done", "submission_complete">>
    /\ submissions = <<SavedRecord(BlipSubmission)>>
    /\ g_pc = "none"
    /\ submit_messages = <<SUBMIT_HINT>>
    /\ system = build_system(BlipSubmission)
    /\ collected_text = ""
    /\ tool_uses = <<>>
    /\ tool_results = <<>>
    /\ chunk = NoChunk
    /\ exc = "none"
    /\ stream_events = 0
    /\ next_tool_id = 1
    /\ arrived = <<>>
    /\ events = <<[chunk |-> [type |-> "done"], call |-> 0]>>
    /\ model_calls = <<[system |-> build_system(BlipSubmission),
                        messages |-> <<SUBMIT_HINT>>,
                        blip |-> BlipSubmission, caller_messages |-> <<>>]>>
    /\ rounds = 0
    /\ turn_start = [blip |-> BlipSubmission, messages |-> <<>>, first_tool_id |-> 1]
    /\ xd = [n |-> 0, data |-> EmptyDict, prev |-> BlipSubmission, raised |-> FALSE,
             result |-> Null]
    /\ fm = NoFind
    /\ _pending_field = <<>>
    /\ blip_id = 1
    /\ dt = NoDevAction
    /\ peer = NoPeer
    /\ file = NoFile
    /\ tmp = NoFile
    /\ lock = 0
    /\ saver = [p \in Savers |-> NoSave]
    /\ _sessions = <<>>
    /\ now = 0
    /\ so = NoStoreOp

\* The receive loop goes on from there, for MaxReceives further actions.
InitSubmitted == AfterFirstSubmit /\ receives = 0

SpecSubmit == InitSubmitted /\ [][Next]_vars


(***************************************************************************)
(* SpecExtract: sequences of _handle_extract_blip on one record, with      *)
(* argument objects over every field of the record.                        *)
(***************************************************************************)
sLong == [i \in 1..(MAX_NAME_LENGTH + 1) |-> "x"]
sBlank == <<" ", " ">>
sText == <<"o", "k">>
sAdopt == <<"A", "d", "o", "p", "t">>
sTools == <<"T", "o", "o", "l", "s">>
sRingChange == <<"r", "i", "n", "g", " ", "c", "h", "a", "n", "g", "e">>

\* The values an argument object may give to a key.
ArgValues(k) ==
    CASE k = "name" -> {Null, Str(sDocker), Str(sBlank), Str(sLong)}
      [] k = "ring" -> {Null, Str(sAdopt), Str(sTrial), Str(sMaybe)}
      [] k = "quadrant" -> {Null, Str(sTools)}
      [] k = "client_references" ->
           {Null, List(<<>>), List(<<sText>>), List(<<sText, sDocker>>)}
      [] k \in {"alternatives_considered", "strengths", "weaknesses"} ->
           {Null, List(<<sText>>)}
      [] k = "is_resubmission" -> {Null, Bool(TRUE)}
      [] k = "previous_appearances" ->
           {Null, List(<<HistoricalBlip(sDocker, "Trial", "Platforms", sVolume9)>>)}
      [] k = "resubmission_rationale" -> {Null, Str(sRingChange)}
      [] k \in ScoreFields -> {Null, Num(55)}
      [] k = "unknown_field" -> {Str(sText)}
      [] OTHER -> {Null, Str(sText)}

ArgKeys == BlipFields \cup {"unknown_field"}

\* Argument objects with one key, and those with two keys of which one is the
\* name, the ring, the description or a score.
ArgObjects ==
    {Dict(<<>>)}
    \cup {Dict([k \in {key} |-> val]) : <<key, val>> \in
            UNION {{<<k, v>> : v \in ArgValues(k)} : k \in ArgKeys}}
    \cup UNION {UNION {{Dict([k \in {k1, k2} |-> IF k = k1 THEN v1 ELSE v2]) :
                          <<v1, v2>> \in ArgValues(k1) \X ArgValues(k2)} :
                       k2 \in ArgKeys \ {k1}} :
                k1 \in {"name", "ring", "description", "completeness_score"}}

\* One dispatch of extract_blip_data on the record.
ExtractDispatch ==
    \E data \in ArgObjects :
        /\ xd.n < MaxDispatches
        /\ LET r == handle_extract_blip(data, blip) IN
           /\ blip' = r.blip
           /\ xd' = [n |-> xd.n + 1, data |-> data, prev |-> blip, raised |-> r.raised,
                     result |-> r.result]
        /\ UNCHANGED <<session_messages, submitted, handler_vars, gen_vars, model_vars,
                       history_vars, radar_vars, dev_vars, peer, env_vars>>

SpecExtract == Init /\ [][ExtractDispatch]_vars


(***************************************************************************)
(* SpecScore: _send_quality_update on the records a session can hold.      *)
(***************************************************************************)
\* The longest client_references list of the records scored.
MaxReferences == 2

\* The values a validated record can hold in a field: text fields are
\* stripped by their validators, so a blank text is the empty string.
TextValues == {Null, Str(<<>>), Str(sText)}
ListValues == {Null, List(<<>>), List(<<sText>>)}
ReferenceValues == {Null} \cup {List([i \in 1..n |-> sText]) : n \in 0..MaxReferences}
RingValues == {Null} \cup {Enum(l) : l \in RingLabels}

ScoreRecords ==
    [name : {Null, Str(<<>>), Str(sDocker)},
     quadrant : {Null, Enum("Tools")},
     ring : RingValues,
     description : TextValues,
     client_references : ReferenceValues,
     submitter_name : {Null, Str(sText)},
     submitter_contact : {Null, Str(sText)},
     why_now : TextValues,
     alternatives_considered : ListValues,
     strengths : ListValues,
     weaknesses : ListValues,
     is_resubmission : {Bool(FALSE)},
     previous_appearances : {Null},
     resubmission_rationale : {Null},
     completeness_score : {Null},
     quality_score : {Null}]

InitScore ==
    /\ blip \in ScoreRecords
    /\ ws_out = <<WELCOME>>
    /\ _history = RadarHistory
    /\ csv_files = RadarHistory
    /\ InitTurn

\* The message _send_quality_update sends for a record.
QualityUpdate(b) ==
    [type |-> "quality_update",
     completeness |-> calculate_scores(b).completeness,
     quality |-> calculate_scores(b).quality,
     blip_data |-> [f \in DOMAIN model_dump(b) \ ScoreFields |-> b[f]],
     missing_fields |-> get_missing_fields(b),
     ring_gaps |-> get_ring_gaps(b)]

\* _send_quality_update(websocket, session); xd.result keeps what was sent.
SendQualityUpdate ==
    /\ xd.n = 0
    /\ ws_out' = Append(ws_out, "quality_update")
    /\ xd' = [xd EXCEPT !.n = 1, !.result = QualityUpdate(blip)]
    /\ UNCHANGED <<session_vars, h_pc, is_submit, full_text, submissions, receives,
                   gen_vars, model_vars, history_vars, radar_vars, dev_vars, peer, env_vars>>

SpecScore == InitScore /\ [][SendQualityUpdate]_vars


(***************************************************************************)
(* SpecHistory: find_matching_blips on corpora and queries.                *)
(***************************************************************************)
\* The longest corpus, and the number of calls of a run.
MaxCorpus == 3
MaxFinds == 2

sDockerLower == <<"d", "o", "c", "k", "e", "r">>
sQueryDocker == <<" ", "d", "O", "c", "k", "e", "r", " ">>
sQueryComp == <<"c", "o", "m", "p">>
sQueryLong == sCompose \o <<" ", "v", "2">>

\* The blips of the CSV files: names as _parse_csv leaves them, stripped and
\* not empty.
CorpusBlips ==
    {HistoricalBlip(sDocker, "Adopt", "Platforms", sVolume10),
     HistoricalBlip(sDockerLower, "Trial", "Platforms", sVolume9),
     HistoricalBlip(sCompose, "Trial", "Tools", sVolume10)}

Corpora == UNION {[1..n -> CorpusBlips] : n \in 0..MaxCorpus}

Queries == {<<>>, <<" ">>, sDocker, sQueryDocker, sCompose, sQueryComp, sQueryLong}

\* The corpus is loaded, or not yet (or the load at startup failed).
InitHistory ==
    /\ blip = BlipSubmission
    /\ ws_out = <<WELCOME, "quality_update">>
    /\ csv_files \in Corpora
    /\ _history \in {<<>>, csv_files}
    /\ InitTurn

\* One call of find_matching_blips(name).
FindMatching ==
    \E name \in Queries :
        /\ fm.n < MaxFinds
        /\ _history' = HistoryForFind
        /\ fm' = [n |-> fm.n + 1, name |-> name,
                  result |-> find_matching_blips(HistoryForFind, name),
                  loaded |-> (_history = <<>>), before |-> _history]
        /\ UNCHANGED <<session_vars, handler_vars, gen_vars, model_vars, history_vars,
                       xd, csv_files, dev_vars, peer, env_vars>>

SpecHistory == InitHistory /\ [][FindMatching]_vars


(***************************************************************************)
(* Properties                                                              *)
(***************************************************************************)
\* The positions of the done events among the yielded chunks.
DoneEvents == {i \in 1..Len(events) : events[i].chunk.type = "done"}

\* The positions of the tool-outcome events among the yielded chunks.
OutcomeEvents == {i \in 1..Len(events) : events[i].chunk.type = "tool_result"}

\* C1: when a stream of the model ends without having opened a tool call,
\* get_claude_response yields done, which is then the only done event and the
\* last event of the turn; the record and the caller's transcript are as they
\* were when that stream was opened, and as they were at the start of the turn
\* when it is the first stream of the turn.
C1_NoToolStream ==
    (g_pc = "done" /\ chunk.type = "done") =>
        /\ Last(events).chunk.type = "done"
        /\ Cardinality(DoneEvents) = 1
        /\ blip = Last(model_calls).blip
        /\ session_messages = Last(model_calls).caller_messages
        /\ Messages = Last(model_calls).messages
        /\ rounds = 0 => (blip = turn_start.blip /\ session_messages = turn_start.messages)

\* A first stream with text and no tool call has ended, on a record and a
\* transcript that an earlier turn has filled.
C1_Witness ==
    /\ g_pc = "done"
    /\ chunk.type = "done"
    /\ rounds = 0
    /\ collected_text # ""
    /\ ~IsNull(blip["name"])
    /\ Len(session_messages) >= 2

\* C8: when a tool round completes, the transcript is the transcript sent on
\* the round's model call plus exactly two turns: an assistant turn holding
\* the accumulated text, if there is any, and then one tool-use block per
\* pending call with its parsed arguments, and a user turn holding one
\* tool-result block per call, in the order the calls were opened, each with
\* the id of the tool-use block at the same place.
C8_TranscriptPairing ==
    (g_pc = "open" /\ rounds >= 1) =>
        LET n == Len(Messages)
            before == Last(model_calls).messages
            a == Messages[n - 1]
            u == Messages[n]
            off == IF collected_text # "" THEN 1 ELSE 0
        IN /\ n = Len(before) + 2
           /\ SubSeq(Messages, 1, n - 2) = before
           /\ a.role = "assistant"
           /\ a.content.t = "blocks"
           /\ Len(a.content.v) = off + Len(tool_uses)
           /\ off = 1 => a.content.v[1] = [type |-> "text", text |-> collected_text]
           /\ \A i \in 1..Len(tool_uses) :
                 /\ a.content.v[off + i].type = "tool_use"
                 /\ a.content.v[off + i].id = tool_uses[i].id
                 /\ a.content.v[off + i].name = tool_uses[i].name
                 /\ a.content.v[off + i].input = ParseToolInput(tool_uses[i].input_json)
           /\ u.role = "user"
           /\ u.content.t = "blocks"
           /\ Len(u.content.v) = Len(tool_uses)
           /\ \A i \in 1..Len(tool_uses) :
                 /\ u.content.v[i].type = "tool_result"
                 /\ u.content.v[i].tool_use_id = a.content.v[off + i].id

\* A round with text and two tool calls has completed.
C8_Witness ==
    /\ g_pc = "open"
    /\ rounds >= 1
    /\ collected_text # ""
    /\ Len(tool_uses) = 2

\* The tool-result blocks of the transcript that the turn in progress added
\* for a call of a known tool.
TurnResultBlocks ==
    UNION {{Messages[m].content.v[k] : k \in
              {k \in 1..Len(Messages[m].content.v) :
                 /\ Messages[m].content.v[k].type = "tool_result"
                 /\ Messages[m].content.v[k].tool_use_id >= turn_start.first_tool_id
                 /\ "error" \notin DOMAIN Messages[m].content.v[k].content.v}} :
           m \in {m \in 1..Len(Messages) : Messages[m].content.t = "blocks"}}

C10_FreshSystem ==
    \A k \in 1..Len(model_calls) :
        model_calls[k].system = build_system(model_calls[k].blip)

\* A second model call was made after a round that changed the record.
C10_Witness ==
    /\ Len(model_calls) >= 2
    /\ model_calls[2].blip # model_calls[1].blip

\* The fields of the record that the argument object of the last dispatch
\* carries with the value null while the record held a value there.
NullOverHeld ==
    {f \in DOMAIN xd.data.v \cap BlipFields :
       xd.n > 0 /\ IsNull(xd.data.v[f]) /\ ~IsNull(xd.prev[f])}

\* C2, as stated: after every dispatch of every sequence of extract_blip_data
\* dispatches, every field of the record that the argument object carries as
\* null and that held a non-null value holds the same value as before the
\* dispatch.
C2_NullSkipEveryField ==
    \A f \in NullOverHeld : blip[f] = xd.prev[f]

\* C2, amended: after every dispatch of every sequence of extract_blip_data
\* dispatches, every field of the record other than the two derived scores
\* that the argument object carries as null and that held a non-null value
\* holds the same value as before the dispatch.
C2_NullSkip ==
    \A f \in NullOverHeld \ ScoreFields : blip[f] = xd.prev[f]

\* A second dispatch carried null for a field that held a value and merged
\* another field of the same argument object.
C2_Witness ==
    /\ xd.n = 2
    /\ ~xd.raised
    /\ NullOverHeld \ ScoreFields # {}
    /\ \E f \in BlipFields \ ScoreFields : blip[f] # xd.prev[f]

\* The fields of the argument object of the last dispatch whose value
\* model_validate rejects.
RejectedFields ==
    {f \in DOMAIN xd.data.v \cap BlipFields :
       ~FieldAccepts(f, BeforeValidator(f, xd.data.v[f]))}

\* C3: after a dispatch of extract_blip_data whose argument object has one
\* field whose value cannot be coerced, the dispatch has not raised (the turn
\* goes on), that field of the record is as it was, and every other field the
\* object carries with a non-null value holds the coerced value.
C3_ValidationFailure ==
    (xd.n > 0 /\ Cardinality(RejectedFields) = 1) =>
        /\ ~xd.raised
        /\ \A f \in RejectedFields : blip[f] = xd.prev[f]
        /\ \A f \in (DOMAIN xd.data.v \cap BlipFields) \ (RejectedFields \cup ScoreFields) :
              ~IsNull(xd.data.v[f]) =>
                  blip[f] = Coerce(f, BeforeValidator(f, xd.data.v[f]))

\* Whether the round that has just completed had a call of each kind.
MixedRound ==
    /\ g_pc = "open"
    /\ rounds >= 1
    /\ \E i \in 1..Len(tool_uses) : tool_uses[i].name = "unknown_tool"
    /\ \E i \in 1..Len(tool_uses) : tool_uses[i].name # "unknown_tool"

\* C4: when a round with a call of an unknown tool and a call of a known tool
\* has completed, an outcome event has been yielded for each call of the
\* round, and the one of the unknown call carries an error.
C4_UnknownTool ==
    MixedRound =>
        \A i \in 1..Len(tool_uses) :
            \E e \in OutcomeEvents :
                /\ events[e].call = tool_uses[i].id
                /\ tool_uses[i].name = "unknown_tool" =>
                       "error" \in DOMAIN events[e].chunk.data

\* Whether an argument buffer is anything but the text of a JSON object.
NotJsonObject(input_json) ==
    \/ input_json = ""
    \/ ~json_loads(input_json).ok
    \/ json_loads(input_json).value.t # "dict"

\* C5: every pending call whose argument buffer is not the text of a JSON
\* object is dispatched with the empty object for its arguments, and its
\* dispatch raises nothing.
C5_ArgumentParseFailure ==
    \A i \in 1..Len(tool_uses) :
        (g_pc \in {"dispatch", "raised"} /\ exc # "APIConnectionError"
           /\ NotJsonObject(tool_uses[i].input_json)) =>
            /\ ParseToolInput(tool_uses[i].input_json) = EmptyDict
            /\ ~(g_pc = "raised" /\ i = NextCallIndex)

\* C6: once the stream of a model call has failed, the events yielded in the
\* turn end with an error event and hold no done event, and no further model
\* call is made.
C6_TransportFailure ==
    exc = "APIConnectionError" =>
        /\ g_pc \in {"raised", "none"}
        /\ DoneEvents = {}
        /\ events # <<>>
        /\ Last(events).chunk.type = "error"

\* The number of tool rounds after which a turn is to be ended.
RoundCeiling == 3

\* C7: a turn that has completed RoundCeiling tool rounds makes no further
\* model call and has ended with an error event.
C7_BoundedTurn ==
    rounds >= RoundCeiling =>
        /\ g_pc \in {"raised", "none"}
        /\ events # <<>>
        /\ Last(events).chunk.type = "error"

\* Whether a transcript holds the synthetic submit instruction.
HoldsHint(transcript) ==
    \E i \in 1..Len(transcript) : transcript[i] = SUBMIT_HINT

\* C11: in a turn with force_submit, the transcript sent on every model call
\* holds the synthetic submit instruction, and the caller's transcript list
\* holds it in no state, during the turn or after it.
C11_ForceSubmitHint ==
    /\ is_submit => \A k \in 1..Len(model_calls) : HoldsHint(model_calls[k].messages)
    /\ ~HoldsHint(session_messages)

\* A submit turn with a tool round and a second model call has ended and the
\* handler is back at receive.
C11_Witness ==
    /\ is_submit
    /\ Len(model_calls) >= 2
    /\ submitted
    /\ h_pc = "receive"
    /\ session_messages # <<>>

WeightedFields == {FieldOrder[i] : i \in 1..Len(FieldOrder)}

\* The claims' reading of filled: not null, a text with something left after
\* trimming, a list with an element.
IsFilledValue(v) ==
    /\ v.t # "null"
    /\ v.t = "str" => Strip(v.v) # <<>>
    /\ v.t = "list" => v.v # <<>>

FilledFields(b) == {f \in WeightedFields : IsFilledValue(b[f])}

\* A value that fills the field.
FilledValue(f) ==
    CASE f \in ListFields -> List(<<sText>>)
      [] f = "ring" -> Enum("Trial")
      [] f = "quadrant" -> Enum("Tools")
      [] OTHER -> Str(sText)

RECURSIVE SumOfWeights(_)
SumOfWeights(fields) ==
    IF fields = {} THEN 0
    ELSE LET f == CHOOSE x \in fields : TRUE
         IN FIELD_WEIGHTS(f) + SumOfWeights(fields \ {f})

\* C13: the completeness sent for a record is the sum of the weights of
\* exactly its filled weighted fields, lies between 0 and 100, is the same
\* whichever ring the record selects, and is not lower for any record that
\* has one more of its fields filled.
C13_Completeness ==
    xd.n = 1 =>
        LET c == xd.result.completeness IN
        /\ c = SumOfWeights(FilledFields(blip))
        /\ c \in 0..100
        /\ ~IsNull(blip["ring"]) =>
               \A l \in RingLabels :
                   calculate_completeness([blip EXCEPT !["ring"] = Enum(l)]) = c
        /\ \A f \in WeightedFields \ FilledFields(blip) :
               calculate_completeness([blip EXCEPT ![f] = FilledValue(f)]) >= c

\* A record with blank and empty fields next to filled ones has been scored.
C13_Witness ==
    /\ xd.n = 1
    /\ xd.result.completeness = 50
    /\ blip["name"] = Str(<<>>)
    /\ blip["strengths"] = List(<<>>)
    /\ ~IsNull(blip["description"])

RECURSIVE SumOfBonuses(_, _)
SumOfBonuses(checks, n) ==
    IF n = 0 THEN 0 ELSE SumOfBonuses(checks, n - 1) + checks[n].bonus

\* C14: for each of the four rings the bonuses of its evidence checks add up
\* to BONUS_TOTAL, the constant of the quality denominator, so that a record
\* that meets every check of its ring earns BONUS_TOTAL whichever ring it is.
C14_CrossTierFairness ==
    \A l \in RingLabels :
        /\ SumOfBonuses(RING_EVIDENCE(l), Len(RING_EVIDENCE(l))) = BONUS_TOTAL
        /\ (blip["ring"] = Enum(l)
              /\ \A i \in 1..Len(RING_EVIDENCE(l)) : CheckSatisfied(blip, RING_EVIDENCE(l)[i]))
               => ring_bonus(blip) = BONUS_TOTAL

\* A record that meets every check of Hold has been scored, and its quality
\* is (100 + BONUS_TOTAL) / (100 + BONUS_TOTAL) * 100.
C14_Witness ==
    /\ xd.n = 1
    /\ blip["ring"] = Enum("Hold")
    /\ get_ring_gaps(blip) = <<>>
    /\ xd.result.completeness = 100
    /\ xd.result.quality = Frac((100 + BONUS_TOTAL) * 100, 100 + BONUS_TOTAL)

\* The requirements of the ring the record selects.
SelectedChecks(b) ==
    IF b["ring"].t = "enum" THEN RING_EVIDENCE(b["ring"].v) ELSE <<>>

\* The claims' reading of a satisfied requirement.
RequirementMet(b, check) ==
    IF check.min_count > 0
    THEN b[check.field].t = "list" /\ Len(b[check.field].v) >= check.min_count
    ELSE IsFilledValue(b[check.field])

MetRequirements(b) ==
    {i \in 1..Len(SelectedChecks(b)) : RequirementMet(b, SelectedChecks(b)[i])}

RECURSIVE BonusOver(_, _)
BonusOver(checks, indices) ==
    IF indices = {} THEN 0
    ELSE LET i == CHOOSE x \in indices : TRUE
         IN checks[i].bonus + BonusOver(checks, indices \ {i})

\* The bonus of the satisfied requirements of the selected ring.
EarnedBonus(b) == BonusOver(SelectedChecks(b), MetRequirements(b))

\* C15: the quality sent for a record, as the ratio num/den with den = 100 +
\* BONUS_TOTAL, is min(100, (completeness + earned bonus) / den * 100), where
\* the earned bonus adds the bonuses of the satisfied requirements of the
\* selected ring only; with no ring selected it is completeness / den * 100
\* and below 100; it always lies between 0 and 100.
C15_QualityFormula ==
    xd.n = 1 =>
        LET q == xd.result.quality
            c == xd.result.completeness
        IN /\ q.den = 100 + BONUS_TOTAL
           /\ q.num = Min(100 * q.den, (c + EarnedBonus(blip)) * 100)
           /\ IsNull(blip["ring"]) => (q.num = c * 100 /\ q.num < 100 * q.den)
           /\ q.num >= 0
           /\ q.num <= 100 * q.den

\* A record has been scored that selects Adopt, meets some but not all of its
\* requirements, and meets a requirement of another ring (why_now, of Assess).
C15_Witness ==
    /\ xd.n = 1
    /\ blip["ring"] = Enum("Adopt")
    /\ EarnedBonus(blip) = 10
    /\ IsFilledValue(blip["why_now"])
    /\ xd.result.quality = Frac((xd.result.completeness + 10) * 100, 140)

\* C16: a record with completeness 100 has quality exactly 100 if and only if
\* every requirement of its selected ring is satisfied; so a record with all
\* eleven fields filled and an unmet requirement has a quality below 100.
C16_FullQuality ==
    (xd.n = 1 /\ xd.result.completeness = 100) =>
        /\ (xd.result.quality.num = 100 * xd.result.quality.den)
             <=> (MetRequirements(blip) = 1..Len(SelectedChecks(blip)))
        /\ xd.result.quality.num <= 100 * xd.result.quality.den

\* A record with all eleven fields filled, the ring Adopt and a single client
\* reference has been scored: completeness 100, quality 120/140 of 100.
C16_Witness ==
    /\ xd.n = 1
    /\ blip["ring"] = Enum("Adopt")
    /\ blip["client_references"] = List(<<sText>>)
    /\ xd.result.completeness = 100
    /\ xd.result.quality = Frac(120 * 100, 140)

\* The place of a field in the order of the weight table.
PlaceOf(f) == CHOOSE i \in 1..Len(FieldOrder) : FieldOrder[i] = f

\* C17: the missing fields sent for a record are exactly its unfilled
\* weighted fields, each once, in the order of the weight table; the
\* completeness plus the weights of the fields listed is 100; and a second
\* call on the same record gives the same list.
C17_MissingFields ==
    xd.n = 1 =>
        LET missing == xd.result.missing_fields
            listed == {missing[i] : i \in 1..Len(missing)}
        IN /\ listed = WeightedFields \ FilledFields(blip)
           /\ Cardinality(listed) = Len(missing)
           /\ \A i, j \in 1..Len(missing) : i < j => PlaceOf(missing[i]) < PlaceOf(missing[j])
           /\ xd.result.completeness + SumOfWeights(listed) = 100
           /\ get_missing_fields(blip) = missing

\* A record with filled, blank and null fields has been scored, with several
\* fields missing.
C17_Witness ==
    /\ xd.n = 1
    /\ blip["name"] = Str(sDocker)
    /\ blip["description"] = Str(<<>>)
    /\ blip["strengths"] = List(<<>>)
    /\ IsNull(blip["ring"])
    /\ Len(xd.result.missing_fields) >= 4
    /\ xd.result.completeness > 10

\* The gap descriptions of the unsatisfied requirements among the first n
\* requirements of the selected ring.
RECURSIVE UnmetGaps(_, _)
UnmetGaps(b, n) ==
    IF n = 0 THEN <<>>
    ELSE UnmetGaps(b, n - 1)
         \o (IF n \in MetRequirements(b) THEN <<>> ELSE <<SelectedChecks(b)[n].gap>>)

\* C18, as stated: the ring gaps sent for a record are the gap descriptions
\* of the unsatisfied requirements of the selected ring, in requirement
\* order, and nothing else; the list is empty when no ring is selected or all
\* requirements are met; and it is empty exactly when the earned bonus equals
\* BONUS_TOTAL.
C18_RingGapsAsStated ==
    xd.n = 1 =>
        LET gaps == xd.result.ring_gaps IN
        /\ gaps = UnmetGaps(blip, Len(SelectedChecks(blip)))
        /\ IsNull(blip["ring"]) => gaps = <<>>
        /\ MetRequirements(blip) = 1..Len(SelectedChecks(blip)) => gaps = <<>>
        /\ (gaps = <<>>) <=> (ring_bonus(blip) = BONUS_TOTAL)

\* C18, amended: as above, but the list is empty exactly when no ring is
\* selected or the earned bonus equals BONUS_TOTAL.
C18_RingGaps ==
    xd.n = 1 =>
        LET gaps == xd.result.ring_gaps IN
        /\ gaps = UnmetGaps(blip, Len(SelectedChecks(blip)))
        /\ IsNull(blip["ring"]) => gaps = <<>>
        /\ MetRequirements(blip) = 1..Len(SelectedChecks(blip)) => gaps = <<>>
        /\ (gaps = <<>>) <=> (IsNull(blip["ring"]) \/ ring_bonus(blip) = BONUS_TOTAL)

\* A record selecting Adopt with one client reference, a description and no
\* strengths has been scored: two gaps, the first and the third requirement.
C18_Witness ==
    /\ xd.n = 1
    /\ blip["ring"] = Enum("Adopt")
    /\ blip["client_references"] = List(<<sText>>)
    /\ blip["description"] = Str(sText)
    /\ Len(xd.result.ring_gaps) = 2
    /\ ~IsNull(blip["weaknesses"])

\* How many times a blip occurs in a list.
Occurrences(list, b) == Cardinality({i \in 1..Len(list) : list[i] = b})

\* C19: when the name of some corpus entry equals the query after trimming
\* and lowering, find_matching_blips returns the entries with such a name,
\* each as often as the corpus holds it, and no other entry.
C19_ExactMatchShortCircuits ==
    (fm.n > 0
       /\ \E i \in 1..Len(_history) : Normalize(_history[i].name) = Normalize(fm.name)) =>
        /\ \A j \in 1..Len(fm.result) :
               Normalize(fm.result[j].name) = Normalize(fm.name)
        /\ \A i \in 1..Len(_history) :
               Normalize(_history[i].name) = Normalize(fm.name) =>
                   Occurrences(fm.result, _history[i]) = Occurrences(_history, _history[i])

\* A query in another case and with blanks around it has found the two
\* entries named Docker in a corpus that also holds Docker Compose.
C19_Witness ==
    /\ fm.n > 0
    /\ fm.name = sQueryDocker
    /\ Len(_history) = 3
    /\ \E i \in 1..3 : _history[i].name = sCompose
    /\ \E i \in 1..3 : _history[i].name = sDocker
    /\ \E i \in 1..3 : _history[i].name = sDockerLower
    /\ Len(fm.result) = 2

\* C20: a call of find_matching_blips with an empty or blank query returns
\* the empty list without loading the corpus and leaves _history as it was.
C20_EmptyQuery ==
    (fm.n > 0 /\ Strip(fm.name) = <<>>) =>
        /\ fm.result = <<>>
        /\ ~fm.loaded
        /\ _history = fm.before

\* Whether the last call had a query that is not blank and equals no name of
\* the corpus after trimming and lowering.
NoExactMatch ==
    /\ fm.n > 0
    /\ Normalize(fm.name) # <<>>
    /\ \A i \in 1..Len(_history) : Normalize(_history[i].name) # Normalize(fm.name)

\* The claim's reading of a partial match: one normalized text lies within
\* the other.
PartialMatch(b, query) ==
    \/ IsSubstring(Normalize(query), Normalize(b.name))
    \/ IsSubstring(Normalize(b.name), Normalize(query))

\* C21: for a query that is not blank and has no exact match,
\* find_matching_blips returns the corpus entries whose normalized name
\* contains the normalized query or lies within it, each as often as the
\* corpus holds it, no other entry, and the empty list when there is none.
C21_PartialMatch ==
    NoExactMatch =>
        /\ \A j \in 1..Len(fm.result) : PartialMatch(fm.result[j], fm.name)
        /\ \A i \in 1..Len(_history) :
               PartialMatch(_history[i], fm.name) =>
                   Occurrences(fm.result, _history[i]) = Occurrences(_history, _history[i])
        /\ (\A i \in 1..Len(_history) : ~PartialMatch(_history[i], fm.name))
               => fm.result = <<>>

\* A query longer than every name has found the names lying within it, in a
\* corpus of three entries.
C21_Witness ==
    /\ NoExactMatch
    /\ fm.name = sQueryLong
    /\ Len(_history) = 3
    /\ \E i \in 1..3 : _history[i].name = sCompose
    /\ \E i \in 1..3 : _history[i].name = sDocker
    /\ Len(fm.result) = 3

\* The number of the radar volume of a label "Volume <digits>".
Digits == <<"0", "1", "2", "3", "4", "5", "6", "7", "8", "9">>

RECURSIVE DecimalUpTo(_, _)
DecimalUpTo(chars, n) ==
    IF n = 0 THEN 0 ELSE 10 * DecimalUpTo(chars, n - 1) + (IndexIn(Digits, chars[n]) - 1)

VolumeNumber(label) ==
    LET digits == SubSeq(label, 8, Len(label)) IN DecimalUpTo(digits, Len(digits))

\* C22: in the list find_matching_blips returns, an appearance in an earlier
\* radar volume stands before every appearance in a later one.
C22_ResultOrder ==
    \A i, j \in 1..Len(fm.result) :
        i < j => VolumeNumber(fm.result[i].volume) <= VolumeNumber(fm.result[j].volume)

\* C23: in every record state that extract_blip_data dispatches reach, no
\* field holds an empty string and no field holds an empty list: a text field
\* is null or a string of at least one character, a list field is null or a
\* list of at least one entry.
C23_NoSentinelStates ==
    \A f \in BlipFields :
        /\ blip[f].t = "str" => blip[f].v # <<>>
        /\ blip[f].t = "list" => blip[f].v # <<>>

\* C24: after every dispatch of extract_blip_data, whatever its argument
\* object, every field that was filled before the dispatch is filled after
\* it, and the completeness of the record is not below what it was.
C24_ProgressPreserved ==
    xd.n > 0 =>
        /\ FilledFields(xd.prev) \subseteq FilledFields(blip)
        /\ SumOfWeights(FilledFields(xd.prev)) <= SumOfWeights(FilledFields(blip))

\* C25: while a session stays submitted, no step changes a field of its
\* record; only a reset, which clears the mark, replaces the record.
C25_FrozenAfterSubmit ==
    [][(submitted /\ submitted') => blip' = blip]_vars

\* The places of the outgoing messages of one type.
Sent(type) == {i \in 1..Len(ws_out) : ws_out[i] = type}

\* C26: between any two submission_complete messages of a session lies the
\* welcome of a reset, and save_submission has run once for each of them and
\* at no other time; after a reset a second submission is saved.
C26_SubmitAtMostOnce ==
    /\ \A i, j \in Sent("submission_complete") :
           i < j => \E k \in Sent(WELCOME) : i < k /\ k < j
    /\ Len(submissions) = Cardinality(Sent("submission_complete"))

\* The submitted session was reset and submitted once more.
C26_Witness ==
    /\ Len(submissions) = 2
    /\ submitted
    /\ Cardinality(Sent(WELCOME)) = 2
    /\ h_pc = "receive"

\* The first submit turn of a connection ends in the state the submitted
\* session starts from.
FirstSubmitDone == AfterFirstSubmit /\ receives = 1

\* C27: a submit action on a session not yet submitted is followed by the end
\* of its turn and the saving of the record, whatever the model responds in
\* that turn. In particular no response of the model leaves the connection
\* closed during a submit turn with the record unsaved: the only failure that
\* is not a response of the model is that of the stream itself.
C27_NeverBlocked ==
    (is_submit /\ h_pc = "closed" /\ exc # "APIConnectionError") => submitted

\* C29: the record's list of prior appearances is populated only if a call of
\* find_matching_blips in the conversation has returned at least one match.
C29_PriorAppearances ==
    ~IsNull(blip["previous_appearances"]) => (fm.n > 0 /\ fm.result # <<>>)

\* The entry of _pending_field the last turn popped, if that entry was written
\* for the record of the turn, and "" otherwise.
OwnPending == IF dt.pending_gen = dt.gen THEN dt.pending ELSE ""

\* C28: after reset() the session holds a record with every field at its
\* default, no scores, an empty transcript and submitted false; and the
\* changes a later turn makes to the record are those its text gives on that
\* record, with no entry of _pending_field that was written for a discarded
\* record.
C28_Reset ==
    /\ dt.kind = "reset" =>
           (blip = BlipSubmission /\ session_messages = <<>> /\ ~submitted)
    /\ dt.kind = "turn" =>
           dt.changes = extract_fields_from_text(dt.text, dt.before, OwnPending)

\* C30: at no time are two turns running on one record: while the turn of one
\* connection has not reached its end, no other connection with the same
\* session id is in a turn.
C30_OneTurnInFlight ==
    ~(h_pc = "turn" /\ peer.pc = "turn")

\* The step that dispatches a call of check_radar_history and returns.
CheckHistoryStep ==
    /\ g_pc = "dispatch"
    /\ Len(tool_results') = Len(tool_results) + 1
    /\ tool_uses[Len(tool_results) + 1].name = "check_radar_history"

\* What the History Matcher returns for the call that is dispatched next.
NextHistoryMatches ==
    find_matching_blips(
        HistoryForFind,
        HistoryQuery(ParseToolInput(tool_uses[Len(tool_results) + 1].input_json)).name)

\* The outcome of a check-history dispatch is that of the matcher: found says
\* whether the matcher returned anything, and the appearances are the volume,
\* ring and quadrant of each match, in the matcher's order.
MatcherOutcome(out, matches) ==
    /\ out.found = (matches # <<>>)
    /\ Len(out.appearances) = Len(matches)
    /\ \A i \in 1..Len(matches) :
           out.appearances[i] = [volume |-> matches[i].volume, ring |-> matches[i].ring,
                                 quadrant |-> matches[i].quadrant]

\* C31: a dispatch of check_radar_history changes no field of the record, and
\* its outcome has found = true exactly when the matcher returns a non-empty
\* list, with one appearance per match in the matcher's order, and found =
\* false with no appearance otherwise.
C31_CheckHistoryDispatch ==
    [][CheckHistoryStep =>
         /\ blip' = blip
         /\ chunk'.type = "tool_result"
         /\ MatcherOutcome(chunk'.data, NextHistoryMatches)]_vars

\* A check-history dispatch has found the two appearances of Docker, after
\* an extract dispatch of the same round has filled the record.
C31_Witness ==
    /\ chunk.type = "tool_result"
    /\ chunk.tool_name = "check_radar_history"
    /\ chunk.data.found
    /\ Len(chunk.data.appearances) = 2
    /\ chunk.data.appearances[1].volume # chunk.data.appearances[2].volume
    /\ ~IsNull(blip["name"])


\* The value pydantic gives field f of the argument object of the last dispatch.
CoercedArg(f) == Coerce(f, BeforeValidator(f, xd.data.v[f]))

\* The record fields the argument object of the last dispatch carries with a
\* non-null coerced value.
Overwritten ==
    {f \in DOMAIN xd.data.v \cap BlipFields : ~IsNull(CoercedArg(f))}

C33_IdempotentMerge ==
    xd.n > 0 => handle_extract_blip(xd.data, blip).blip = blip

\* A second dispatch on a record the first one had filled merged a non-empty
\* list and changed the record and its scores.
C33_Witness ==
    /\ xd.n = 2
    /\ ~xd.raised
    /\ xd.prev # BlipSubmission
    /\ \E f \in ListFields \cap DOMAIN xd.data.v :
          xd.data.v[f].t = "list" /\ xd.data.v[f].v # <<>> /\ blip[f] # xd.prev[f]
    /\ blip["completeness_score"] # xd.prev["completeness_score"]


\* The positions in the current stream at which a tool call was opened.
Opens == {k \in 1..Len(arrived) : arrived[k].type = "content_block_start"}

\* The position at which the i-th tool call of the stream was opened.
OpenPosition(i) == CHOOSE k \in Opens : Cardinality({j \in Opens : j <= k}) = i

\* The position that ends the fragments of the i-th tool call: where the next
\* call was opened, or the end of the stream.
NextOpen(i) == IF i < Cardinality(Opens) THEN OpenPosition(i + 1) ELSE Len(arrived) + 1

\* The argument fragments that arrived at the positions lo..hi-1, joined in
\* arrival order.
RECURSIVE JoinFrom(_, _)
JoinFrom(lo, hi) ==
    IF lo >= hi THEN "" ELSE arrived[lo].partial_json \o JoinFrom(lo + 1, hi)

\* C34: in every state of an open stream, its last one included, the tool
\* calls collected are the calls the stream opened, in order, and the argument
\* buffer of each is the concatenation, in arrival order, of the fragments
\* that arrived after it was opened and before the next call was opened.
C34_ArgumentAssembly ==
    g_pc = "streaming" =>
        /\ Len(tool_uses) = Cardinality(Opens)
        /\ \A i \in 1..Len(tool_uses) :
              /\ tool_uses[i].id = arrived[OpenPosition(i)].id
              /\ tool_uses[i].input_json = JoinFrom(OpenPosition(i) + 1, NextOpen(i))

\* A stream has delivered its last event after it opened two tool calls and
\* delivered a fragment for each of them.
C34_Witness ==
    /\ g_pc = "streaming"
    /\ stream_events = MaxStreamEvents
    /\ Len(tool_uses) = 2
    /\ tool_uses[1].input_json # ""
    /\ tool_uses[2].input_json # ""
    /\ tool_uses[1].input_json # tool_uses[2].input_json


(***************************************************************************)
(* app/storage.py: concurrent calls of save_submission                     *)
(***************************************************************************)
\* The position of call p.
At(p, pc) == saver[p].pc = pc

Goto(p, pc) == saver' = [saver EXCEPT ![p].pc = pc]

\* save_submission touches nothing but the files and the lock.
StorageFrame ==
    UNCHANGED <<session_vars, handler_vars, gen_vars, model_vars, history_vars, xd,
                radar_vars, dev_vars, peer, store_vars>>

\* save_submission is called; _ensure_file tests SUBMISSIONS_FILE.exists()
\* (lines 19-22, 39).
SaveStart(p) ==
    /\ At(p, "idle")
    /\ Goto(p, IF file.exists THEN "acquire" ELSE "create")
    /\ UNCHANGED <<file, tmp, lock>>
    /\ StorageFrame

\* write_text of line 23 opens the path for writing: the file is created, or
\* the file another call has put there meanwhile is truncated.
EnsureOpen(p) ==
    /\ At(p, "create")
    /\ file' = IF file.exists
               THEN [file EXCEPT !.valid = FALSE, !.records = <<>>]
               ELSE [exists |-> TRUE, valid |-> FALSE, records |-> <<>>,
                     ino |-> <<p, "ensure">>]
    /\ saver' = [saver EXCEPT ![p].pc = "write_empty", ![p].fd = file'.ino]
    /\ UNCHANGED <<tmp, lock>>
    /\ StorageFrame

\* write_text of line 23 writes "[]" to the file it opened, which is the file
\* of the path unless a replace has put another one there.
EnsureWrite(p) ==
    /\ At(p, "write_empty")
    /\ file' = IF file.ino = saver[p].fd
               THEN [file EXCEPT !.valid = TRUE, !.records = <<>>]
               ELSE file
    /\ Goto(p, "acquire")
    /\ UNCHANGED <<tmp, lock>>
    /\ StorageFrame

\* with lock: (lines 47-48) the call waits until the lock is free.
Acquire(p) ==
    /\ At(p, "acquire")
    /\ lock = 0
    /\ lock' = p
    /\ Goto(p, "read")
    /\ UNCHANGED <<file, tmp>>
    /\ StorageFrame

\* Lines 50-51: read_text and json.loads, which raises on a text that is no
\* JSON; the exception leaves the with block, which releases the lock.
ReadSubmissions(p) ==
    /\ At(p, "read")
    /\ IF file.valid
       THEN /\ saver' = [saver EXCEPT ![p].pc = "write_tmp",
                                      ![p].submissions = file.records]
            /\ UNCHANGED lock
       ELSE /\ Goto(p, "raised")
            /\ lock' = 0
    /\ UNCHANGED <<file, tmp>>
    /\ StorageFrame

\* Lines 53-57: the record of the call is appended and the list is written to
\* the temp file.
WriteTmp(p) ==
    /\ At(p, "write_tmp")
    /\ tmp' = [exists |-> TRUE, valid |-> TRUE,
               records |-> Append(saver[p].submissions, p), ino |-> <<p, "tmp">>]
    /\ Goto(p, "replace")
    /\ UNCHANGED <<file, lock>>
    /\ StorageFrame

\* Line 58: tmp.replace(SUBMISSIONS_FILE).
ReplaceFile(p) ==
    /\ At(p, "replace")
    /\ file' = tmp
    /\ tmp' = NoFile
    /\ Goto(p, "release")
    /\ UNCHANGED lock
    /\ StorageFrame

\* The with block ends and save_submission returns the record (line 60).
Release(p) ==
    /\ At(p, "release")
    /\ lock' = 0
    /\ Goto(p, "returned")
    /\ UNCHANGED <<file, tmp>>
    /\ StorageFrame

NextStorage ==
    \E p \in Savers :
        \/ SaveStart(p)
        \/ EnsureOpen(p)
        \/ EnsureWrite(p)
        \/ Acquire(p)
        \/ ReadSubmissions(p)
        \/ WriteTmp(p)
        \/ ReplaceFile(p)
        \/ Release(p)

SpecStorage == Init /\ [][NextStorage]_vars

\* The calls of save_submission made so far.
Called == {p \in Savers : ~At(p, "idle")}

\* C35: whenever every call of save_submission made so far has returned, the
\* submissions file is a valid JSON list with exactly one record per call.
C35_ConcurrentPersistence ==
    (Called # {} /\ \A p \in Called : At(p, "returned")) =>
        /\ file.exists
        /\ file.valid
        /\ Len(file.records) = Cardinality(Called)
        /\ {file.records[i] : i \in 1..Len(file.records)} = Called


(***************************************************************************)
(* app/main.py: SessionStore                                               *)
(***************************************************************************)
\* The store is built with max_sessions = MaxSessions and ttl_seconds = TtlSeconds.
MaxSessions == 3
TtlSeconds == 2

\* Operations on the store and the reach of the clock.
MaxStoreOps == 5
MaxClock == 3

SessionIds == {"s1", "s2", "s3", "s4"}

\* The ids of the store, in the order of the OrderedDict.
Ids(s) == {s[i].id : i \in 1..Len(s)}

IndexOfId(s, sid) == CHOOSE i \in 1..Len(s) : s[i].id = sid

\* now - last_access > self._ttl_seconds
Expired(e, t) == t - e.last_access > TtlSeconds

\* _cleanup_expired(): the expired entries are deleted.
cleanup_expired(s, t) ==
    LET Keep(e) == ~Expired(e, t) IN SelectSeq(s, Keep)

\* while len(self._sessions) >= self._max_sessions: del the first key.
RECURSIVE evict_oldest(_)
evict_oldest(s) ==
    IF Len(s) >= MaxSessions /\ s # <<>> THEN evict_oldest(Tail(s)) ELSE s

\* self._sessions[session_id] = (session, time.time()): a key the dict holds
\* keeps its place, a new key goes to the end.
SetItem(s, e) ==
    IF e.id \in Ids(s) THEN [s EXCEPT ![IndexOfId(s, e.id)] = e] ELSE Append(s, e)

\* move_to_end(session_id)
move_to_end(s, sid) ==
    LET i == IndexOfId(s, sid)
    IN SubSeq(s, 1, i - 1) \o SubSeq(s, i + 1, Len(s)) \o <<s[i]>>

\* create(session_id) with the new ConversationSession named session.
create(s, sid, t, session) ==
    [session |-> session,
     sessions |-> SetItem(evict_oldest(cleanup_expired(s, t)),
                          [id |-> sid, session |-> session, last_access |-> t])]

\* get(session_id): session 0 stands for None.
get(s, sid, t) ==
    IF sid \notin Ids(s) THEN [session |-> 0, sessions |-> s]
    ELSE LET e == s[IndexOfId(s, sid)]
         IN [session |-> e.session,
             sessions |-> move_to_end(SetItem(s, [e EXCEPT !.last_access = t]), sid)]

\* get_or_create(session_id)
get_or_create(s, sid, t, session) ==
    IF get(s, sid, t).session # 0 THEN get(s, sid, t) ELSE create(s, sid, t, session)

\* An operation op on the store that gives the outcome r.
StoreOp(op, sid, r) ==
    /\ so.n < MaxStoreOps
    /\ _sessions' = r.sessions
    /\ so' = [n |-> so.n + 1, op |-> op, id |-> sid, returned |-> r.session,
              created |-> r.session = so.n + 1, before |-> _sessions, at |-> now]
    /\ UNCHANGED <<now, session_vars, handler_vars, gen_vars, model_vars, history_vars,
                   xd, radar_vars, dev_vars, peer, storage_vars>>

\* The sessions are numbered in the order of their construction.
StoreCreate == \E sid \in SessionIds : StoreOp("create", sid, create(_sessions, sid, now, so.n + 1))

StoreGet == \E sid \in SessionIds : StoreOp("get", sid, get(_sessions, sid, now))

StoreGetOrCreate ==
    \E sid \in SessionIds :
        StoreOp("get_or_create", sid, get_or_create(_sessions, sid, now, so.n + 1))

\* A second passes.
Tick ==
    /\ now < MaxClock
    /\ now' = now + 1
    /\ UNCHANGED <<_sessions, so, session_vars, handler_vars, gen_vars, model_vars,
                   history_vars, xd, radar_vars, dev_vars, peer, storage_vars>>

NextStore == StoreCreate \/ StoreGet \/ StoreGetOrCreate \/ Tick

SpecStore == Init /\ [][NextStore]_vars


\* The entries of the store before the last operation.
Before == {so.before[i] : i \in 1..Len(so.before)}

\* The entries of the store.
Held == {_sessions[i] : i \in 1..Len(_sessions)}

\* Whether the store still holds the session of entry e under its id.
Kept(e) == \E h \in Held : h.id = e.id /\ h.session = e.session

\* C36: the store never holds more than max_sessions sessions, and after a
\* create that found the store at capacity the session it made is in the
\* store under its id and a session that was accessed least recently among
\* those the store held has left the store.
C36_Capacity ==
    /\ Len(_sessions) <= MaxSessions
    /\ (so.created /\ Len(so.before) >= MaxSessions) =>
          /\ \E h \in Held : h.id = so.id /\ h.session = so.returned
          /\ \E e \in Before :
                /\ \A o \in Before : e.last_access <= o.last_access
                /\ ~Kept(e)

\* C37: get and get_or_create never return a session whose last access is
\* more than ttl_seconds in the past: get returns None for it and
\* get_or_create a session it has just created.
C37_Expiry ==
    (so.op \in {"get", "get_or_create"}) =>
        \A e \in Before :
            (e.id = so.id /\ Expired(e, so.at)) =>
                /\ so.returned # e.session
                /\ so.op = "get" => so.returned = 0
                /\ so.op = "get_or_create" => so.created


\* The ids of the blocks of the given type in a transcript entry, in order;
\* an entry whose content is a text has none.
RECURSIVE BlockIds(_, _, _)
BlockIds(blocks, type, key) ==
    IF blocks = <<>> THEN <<>>
    ELSE (IF Head(blocks).type = type THEN <<Head(blocks)[key]>> ELSE <<>>)
         \o BlockIds(Tail(blocks), type, key)

ToolUseIds(m) ==
    IF m.content.t = "blocks" THEN BlockIds(m.content.v, "tool_use", "id") ELSE <<>>

ToolResultIds(m) ==
    IF m.content.t = "blocks" THEN BlockIds(m.content.v, "tool_result", "tool_use_id")
    ELSE <<>>

\* Every assistant entry of the transcript that has tool-use blocks is followed
\* at once by a user entry that has one tool-result block per tool-use id.
WellFormed(transcript) ==
    \A i \in 1..Len(transcript) :
        (transcript[i].role = "assistant" /\ ToolUseIds(transcript[i]) # <<>>) =>
            /\ i < Len(transcript)
            /\ transcript[i + 1].role = "user"
            /\ ToolResultIds(transcript[i + 1]) = ToolUseIds(transcript[i])

\* C38: whenever no turn is in progress, after a turn that ended and after a
\* turn an exception has aborted, every assistant entry of the session's
\* transcript that has tool-use blocks is followed at once by a user entry
\* with one tool-result block per tool-use id.
C38_TranscriptWellFormed ==
    h_pc \in {"receive", "closed"} => WellFormed(session_messages)


\* The texts of the text blocks of a list of content blocks, joined in order.
RECURSIVE BlockText(_)
BlockText(blocks) ==
    IF blocks = <<>> THEN ""
    ELSE (IF Head(blocks).type = "text" THEN Head(blocks).text ELSE "")
         \o BlockText(Tail(blocks))

\* The text the assistant entries of a transcript record, joined in order.
RECURSIVE RecordedText(_)
RecordedText(transcript) ==
    IF transcript = <<>> THEN ""
    ELSE LET m == Head(transcript)
         IN (IF m.role # "assistant" THEN ""
             ELSE IF m.content.t = "blocks" THEN BlockText(m.content.v)
             ELSE m.content.v)
            \o RecordedText(Tail(transcript))

\* The text fragments the model has streamed in the turn, joined in order.
RECURSIVE StreamedText(_)
StreamedText(evs) ==
    IF evs = <<>> THEN ""
    ELSE (IF Head(evs).chunk.type = "text_delta" THEN Head(evs).chunk.text ELSE "")
         \o StreamedText(Tail(evs))

\* The entries the turn has added to the session's transcript.
TurnEntries ==
    SubSeq(session_messages, Len(turn_start.messages) + 1, Len(session_messages))

\* C39: once the handler has taken the done event of a turn, the text the
\* assistant entries added in the turn record is the text the model streamed
\* in the turn, each fragment once.
C39_TextRecordedOnce ==
    (h_pc = "turn" /\ g_pc = "done" /\ chunk = NoChunk) =>
        RecordedText(TurnEntries) = StreamedText(events)


\* The tool-use and tool-result entries of a transcript.
ToolEntries(transcript) ==
    LET HasBlocks(m) == m.content.t = "blocks" IN SelectSeq(transcript, HasBlocks)

\* The entries get_claude_response has appended in the turn to the list it
\* names messages.
RoundEntries == SubSeq(Messages, Len(turn_start.messages) + 1, Len(Messages))

\* C40: in every state of a turn in which get_claude_response runs, with
\* force_submit set or not, the tool-use and tool-result entries the turn has
\* added to the session's transcript are the ones get_claude_response has
\* appended for the model's responses, which are all of them when force_submit
\* is not set.
C40_ForceSubmitPersistence ==
    (h_pc = "turn" /\ g_pc \in {"open", "streaming", "dispatch", "done", "raised"}) =>
        ToolEntries(TurnEntries) = ToolEntries(RoundEntries)

=============================================================================
